---- MODULE Spec2Model ----
(***************************************************************************)
(* The sandbox orchestrator of sindoq (package sindoq, type sandbox) with  *)
(* its event bus (package event, type Bus) and one backend Instance.       *)
(*                                                                         *)
(* Every API call is one process p \in Procs.  A call is cut into steps at *)
(* the points where it touches shared state: a critical section of         *)
(* sandbox.mu, a Bus.Emit, a call of the backend Instance, a channel       *)
(* operation.  Calls of different processes interleave freely, so both     *)
(* sequential use (one call finishes before the next starts) and           *)
(* concurrent use are behaviours of the model.                             *)
(***************************************************************************)
EXTENDS Integers, Sequences, FiniteSets, Bags, TLC

\* ------------------------------------------------------------------ bounds
\* Number of API calls (of any method) on the sandbox in a behaviour of Spec.
NumCalls == 2
\* Number of Stop, Status and RunCommand calls in a behaviour of SpecLifecycle.
NumLifecycleCalls == 3
\* Number of Execute and ExecuteStream calls in a behaviour of SpecConfig.
NumConfigCalls == 1
\* Number of Execute calls in a behaviour of SpecEvents.
NumEventCalls == 1
\* Number of Subscribe calls in a behaviour of SpecEvents.
MaxSubs == 1
\* Number of Execute calls in a behaviour of SpecDeadline.
NumDeadlineCalls == 1
\* The clock of SpecDeadline runs from 0 to MaxTime.
MaxTime == 3
\* The execution timeouts of SpecDeadline are 0 (none) to MaxTimeout ticks.
MaxTimeout == 2
\* Number of calls on the Bus in a behaviour of SpecBus.
NumBusCalls == 3
\* Number of calls on the streams and their writer in a behaviour of SpecPipe.
NumPipeCalls == 3
\* bufferSize of NewMultiStreamWriter(bufferSize) in SpecPipe.
BufferSize == 1
\* Number of calls on the Registry and its SandboxFactory in a behaviour of
\* SpecRegistry.
NumRegistryCalls == 3
\* Number of Detect calls on one code in a behaviour of SpecDetect.
NumDetectCalls == 2
\* Largest number of patterns of one language the code matches in SpecDetect.
MaxMatches == 1
\* Number of AddMapping and DetectFromFilename calls in a behaviour of
\* SpecFilename.
NumFilenameCalls == 3
\* Number of Merge calls in a behaviour of SpecMerge.
NumMergeCalls == 1
\* Number of Write and Close calls on a MultiStreamWriter in a behaviour of
\* SpecForward.
NumForwardCalls == 2
\* Number of calls on the Bus in a behaviour of SpecReentrant, where a handler
\* may call Clear on the Bus that delivers to it.
NumReentrantCalls == 3
\* Number of calls on the nsjail Provider, its instances and the registry that
\* caches it in a behaviour of SpecNsjail.
NumNsjailCalls == 3
\* Number of Create calls on the nsjail Provider in a behaviour of SpecIDs.
NumCreateCalls == 2
\* The last value of the clock: time.Now().UnixNano() is in 0..MaxNano.
MaxNano == 1
\* Number of mock instances built in a behaviour of SpecIDs.
MaxMockInstances == 131
\* Number of calls on the RuntimeRegistry, and of writes to a RuntimeInfo, in
\* a behaviour of SpecRuntimes.
NumRuntimeCalls == 3
\* Number of Execute calls on backend Instances in a behaviour of SpecCompile.
NumCompileCalls == 2
\* Largest exit code of a compile or run command in SpecCompile.
MaxExitCode == 1

MaxOf(S) == CHOOSE n \in S : \A m \in S : m <= n
Procs ==
    1..MaxOf({NumCalls, NumLifecycleCalls, NumConfigCalls, NumEventCalls, NumDeadlineCalls,
               NumBusCalls, NumPipeCalls, NumRegistryCalls,
               NumDetectCalls, NumFilenameCalls, NumMergeCalls, NumCompileCalls,
               NumForwardCalls, NumReentrantCalls, NumNsjailCalls, NumCreateCalls,
               NumRuntimeCalls})
\* Sources of bus events: 0 is createSandbox, p \in Procs is the call p.
Sources == {0} \cup Procs

\* ---------------------------------------------------------------- constants
\* results := make(chan *executor.ExecutionResult, 1)
ChanCap == 1

EventSandboxCreated == "sandbox.created"
EventSandboxStopped == "sandbox.stopped"
EventSandboxError == "sandbox.error"
EventExecutionStarted == "execution.started"
EventExecutionComplete == "execution.complete"
EventExecutionError == "execution.error"

EventTypes ==
    { EventSandboxCreated, EventSandboxStopped, EventSandboxError,
      EventExecutionStarted, EventExecutionComplete, EventExecutionError }

ErrSandboxStopped == "sandbox is stopped"
ErrLanguageDetectionFailed == "language detection failed"
\* Any error a backend Instance returns (mockInstance.execErr, stopErr).
ErrBackend == "backend error"
ErrExecutionTimeout == "execution timeout"
\* The docker Instance's fmt.Errorf("execution timed out after %v: %w ...").
ErrDockerTimedOut == "execution timed out after"
\* context.Canceled, as the docker client hands it back.
ErrContextCanceled == "context canceled"
\* io.ErrClosedPipe
ErrClosedPipe == "io: read/write on closed pipe"
\* Any error an inline StreamHandler returns.
ErrHandler == "handler error"
\* DefaultExecuteConfig().Timeout, in seconds.
DefaultTimeout == 30

StatusRunning == "running"
StatusStopped == "stopped"

StreamStart == "start"
StreamStdout == "stdout"
StreamStderr == "stderr"
StreamComplete == "complete"
StreamError == "error"

ProviderName == "mock"
InstanceID == "test-instance-123"

\* Registry.Get: fmt.Errorf("provider %q not registered", name)
ErrNotRegistered == "provider not registered"
\* Registry.Get: fmt.Errorf("failed to create provider %q: %w", name, err)
ErrCreateProvider == "failed to create provider"
\* The error of a Provider.Close that fails.
ErrProviderClose == "close failed"
\* CreateSandbox: "provider %q not found\n\nAvailable providers:\n"
ErrProviderNotFound == "provider not found"
\* CreateSandbox: fmt.Errorf("get provider: %w", err)
ErrGetProvider == "get provider"
\* CreateSandbox: fmt.Errorf("create sandbox: %w", err)
ErrCreateSandbox == "create sandbox"

\* Instance.Execute: fmt.Errorf("unsupported language: %s", opts.Language)
ErrUnsupportedLanguage == "unsupported language"
\* Instance.Execute: fmt.Errorf("write code file: %w", err)
ErrWriteCodeFile == "write code file"
\* docker Instance.Execute: fmt.Errorf("compile: %w", err)
ErrCompile == "compile"
\* The error of a run command that could not be run to its end.
ErrRun == "run failed"

\* ------------------------------------------------------------------- inputs
\* WithLanguage(...) of one call: "" is "not given".
OptLangs == {"", "Python"}
\* What detector.Detect answers for the code of one call: "" is "unknown".
DetectResults == {"", "Go"}
\* Config.DefaultLanguage: "" is "not configured".
DefaultLangs == {"", "Ruby"}
\* Handlers a caller registers with Subscribe; GlobalHandler is Config.EventHandler.
UserHandlers == {"h1"}
GlobalHandler == "gh"
\* What a backend's ExecuteStream hands to the stream handler, in order.
Scripts == { <<StreamStdout, StreamComplete>>, <<StreamError>> }

VARIABLES
    config,     \* sandbox.config: [autoDetect, defaultLanguage, eventHandler]
    stopped,    \* sandbox.stopped, guarded by sandbox.mu
    instStatus, \* the backend Instance's own status (mockInstance.status)
    subscribers,\* Bus.subscribers: event type -> sequence of subscriptions
    allSubs,    \* Bus.allSubs: sequence of subscriptions
    nextID,     \* Bus.nextID
    tasks,      \* handler goroutines spawned by Bus.Emit and not yet run
    handled,    \* handler goroutines that have run
    emitted,    \* per source, the event types it passed to Bus.Emit, in order
    op,         \* per process, the API method it calls ("" before the call)
    pc,         \* per process, its position in that method
    optLang,    \* per process, the language given in the execute options
    det,        \* per process, the detector's answer for its code
    lang,       \* per process, the language the pipeline resolved
    ret,        \* per process, what the API method returned
    goret,      \* per ExecuteAsync process, what the goroutine's s.Execute returned
    observed,   \* per process, TRUE once it has read sandbox.stopped as set
    bcalls,     \* per process, the backend calls it made, in order
    bres,       \* per process, whether its backend call returned an error
    chanBuf,    \* per ExecuteAsync process, the buffer of the results channel
    chanClosed, \* per ExecuteAsync process, whether the channel is closed
    sent,       \* per ExecuteAsync process, the number of sends on the channel
    script,     \* per ExecuteStream process, what the backend has yet to issue
    issued,     \* per ExecuteStream process, what the backend has issued
    hlog,       \* per ExecuteStream process, what the user handler received
    now,        \* the clock
    ctxDeadline,\* per process, the deadline of the context its caller passes
    execTimeout,\* per process, execCfg.Timeout of its call
    run,        \* per process, the run of its code in the docker Instance
    unsubscribers, \* per subscribing process, what the func() it gets back removes
    pending,    \* per process, what the loop it is in has yet to visit
    closure,    \* per unsubscribing process, the process whose func() it invokes
    calls,      \* per emitting process, the subscriptions it invoked, in order
    seen,       \* per emitting process, the Bus as it was when the emit began
    removed,    \* the IDs whose unsubscribe or unsubscribeAll has returned
    counted,    \* per process, what SubscriberCount returned to it
    closed,     \* per OutputStream, its closed flag
    events,     \* per OutputStream, the buffer of its events channel
    closes,     \* per OutputStream, the number of close(s.events) executed
    handlers,   \* per OutputStream, its inline handlers
    closeReturned, \* per OutputStream, TRUE once a Close of it has returned
    mclosed,    \* MultiStreamWriter.closed
    mevents,    \* the buffer of MultiStreamWriter.events
    mcloses,    \* the number of close(m.events) executed
    mlock,      \* the process that holds MultiStreamWriter.mu for writing, or 0
    fwd,        \* per OutputStream, the forward goroutine that drains it
    stream,     \* per process, the OutputStream it writes to or closes
    afterClose, \* per writing process, whether it began after a Close had returned
    registered, \* per writing process, the stream's handlers when it began
    earlier,    \* per writing process, the writes on its stream that had returned
    invoked,    \* per writing process, the inline handlers it invoked, in order
    put,        \* per writing process, the number of events it put on the channel
    constructors,    \* Registry.constructors: the registered names
    providers,       \* Registry.providers: per name the cached provider, or NoProvider
    built,           \* the invocations of constructors so far; a provider is its index
    closedProviders, \* bag of the providers the registry has called Close on
    resets,          \* number of Unregister and Close calls so far
    instances,       \* the instances Provider.Create has returned
    arg,             \* per registry call, its name and config
    got,             \* per registry call, the provider Get returned to it
    at,              \* per registry call, the value of resets when Get returned
    listed,          \* per CreateSandbox call, the names its error message lists
    dopts,           \* the *DetectOptions of the Detect calls
    filename,        \* the filename of the DetectFromFilename calls
    code,            \* the code of the Detect calls: what the detector reads off it
    enry,            \* what go-enry answers for this filename and this code
    customMappings,  \* Detector.customMappings
    detected,        \* per call, the *DetectResult it returned
    options,         \* the receiver o of the Merge calls
    defaults,        \* the argument of the Merge calls
    merged,          \* per call, the *ExecutionOptions Merge returned
    exec,            \* per Execute call on a backend, the backend and the language
    steps,           \* per Execute call on a backend, the commands it ran, in order
    result,          \* per Execute call on a backend, the *ExecutionResult returned
    nano,            \* what time.Now().UnixNano() returns
    pmu,             \* nsjail Provider.mu: the call that holds it, or 0
    rmu,             \* Registry.mu of the registry that caches the nsjail provider
    pinstances,      \* nsjail Provider.instances: the IDs and their *Instance
    ids,             \* per Create call, the ID of the Instance it built, or NoID
    istopped,        \* per Instance (named by its Create call), Instance.stopped
    stopping,        \* per call, the Instance whose Stop it is in, or 0
    remaining,       \* per Close call, the instances its range has yet to visit
    instanceCounter, \* testutil.instanceCounter
    mockIDs,         \* the IDs of the mock instances built so far
    heap,            \* the RuntimeInfo values, by their address
    runtimes,        \* RuntimeRegistry.runtimes: per name a *RuntimeInfo, or NilInfo
    aliases,         \* RuntimeRegistry.aliases: per lower-case name a *RuntimeInfo, or NilInfo
    held,            \* the *RuntimeInfo the callers hold: their own, and what Get returned
    info             \* per Get call on the RuntimeRegistry, the *RuntimeInfo returned

busVars == <<subscribers, allSubs, nextID, tasks, handled, emitted>>
callVars == <<op, pc, optLang, det, lang, ret, goret, observed, bcalls, bres>>
chanVars == <<chanBuf, chanClosed, sent>>
streamVars == <<script, issued, hlog>>
timeVars == <<now, ctxDeadline, execTimeout, run>>
busCallVars == <<unsubscribers, pending, closure, calls, seen, removed, counted>>
pipeVars ==
    <<closed, events, closes, handlers, closeReturned, mclosed, mevents, mcloses, mlock, fwd,
      stream, afterClose, registered, earlier, invoked, put>>
registryVars ==
    <<constructors, providers, built, closedProviders, resets, instances, arg, got, at, listed>>
\* The variables of the packages beside the sandbox, its Bus and the streams.
detectVars == <<dopts, filename, code, enry, customMappings, detected>>
mergeVars == <<options, defaults, merged>>
compileVars == <<exec, steps, result>>
nsjailVars ==
    <<nano, pmu, rmu, pinstances, ids, istopped, stopping, remaining, instanceCounter, mockIDs>>
runtimeVars == <<heap, runtimes, aliases, held, info>>
otherVars == <<registryVars, detectVars, mergeVars, compileVars, nsjailVars, runtimeVars>>
\* The variables the methods of the sandbox other than the docker run leave alone.
extVars == <<timeVars, busCallVars, pipeVars, otherVars>>
\* The variables a run in the docker Instance leaves alone besides the sandbox's.
nonTimeVars == <<busCallVars, pipeVars, otherVars>>
\* The variables a call on the Bus leaves alone besides the sandbox's.
nonBusVars == <<timeVars, pipeVars, otherVars>>
\* The state of the sandbox and of its calls that a call on the Bus leaves alone.
sandboxVars ==
    <<config, stopped, instStatus, optLang, det, lang, ret, goret, observed, bcalls, bres,
      chanVars, streamVars>>
\* What a call on an OutputStream or on the MultiStreamWriter leaves alone.
nonPipeVars ==
    <<config, stopped, instStatus, busVars, optLang, det, lang, goret, observed, bcalls, bres,
      chanVars, streamVars, timeVars, unsubscribers, closure, calls, seen, removed, counted,
      otherVars>>
\* The state a call on the Registry or its factory leaves alone.
nonRegistryVars ==
    <<config, stopped, instStatus, busVars, optLang, det, lang, goret, observed, bcalls, bres,
      chanVars, streamVars, timeVars, busCallVars, pipeVars, detectVars, mergeVars,
      compileVars, nsjailVars, runtimeVars>>
\* The state a call on the Detector leaves alone.
nonDetectVars ==
    <<config, stopped, instStatus, busVars, optLang, det, lang, ret, goret, observed, bcalls,
      bres, chanVars, streamVars, timeVars, busCallVars, pipeVars, registryVars, mergeVars,
      compileVars, nsjailVars, runtimeVars>>
\* The state a call of Merge leaves alone.
nonMergeVars ==
    <<config, stopped, instStatus, busVars, optLang, det, lang, ret, goret, observed, bcalls,
      bres, chanVars, streamVars, timeVars, busCallVars, pipeVars, registryVars, detectVars,
      compileVars, nsjailVars, runtimeVars>>
\* The state an Execute call on a backend Instance leaves alone.
nonCompileVars ==
    <<config, stopped, instStatus, busVars, optLang, det, lang, goret, observed, bcalls,
      bres, chanVars, streamVars, timeVars, busCallVars, pipeVars, registryVars, detectVars,
      mergeVars, nsjailVars, runtimeVars>>
\* The state a call on the nsjail Provider or on one of its instances leaves
\* alone.
nonNsjailVars ==
    <<config, stopped, instStatus, busVars, optLang, det, lang, goret, observed, bcalls,
      bres, chanVars, streamVars, timeVars, busCallVars, pipeVars, registryVars, detectVars,
      mergeVars, compileVars, runtimeVars>>
\* The state a call on a RuntimeRegistry, and a caller that writes to a
\* RuntimeInfo, leave alone.
nonRuntimeVars ==
    <<config, stopped, instStatus, busVars, optLang, det, lang, ret, goret, observed, bcalls,
      bres, chanVars, streamVars, timeVars, busCallVars, pipeVars, registryVars, detectVars,
      mergeVars, compileVars, nsjailVars>>
vars == <<config, stopped, instStatus, busVars, callVars, chanVars, streamVars, extVars>>

\* ------------------------------------------------------------ return values
NoRet == [kind |-> "none", op |-> "", provider |-> "", id |-> "", err |-> "", val |-> ""]
\* return nil
Nil == [NoRet EXCEPT !.kind = "nil"]
\* NewError(op, s.providerName, s.instance.ID(), err)
NewError(o, e) ==
    [kind |-> "SandboxError", op |-> o, provider |-> ProviderName,
     id |-> InstanceID, err |-> e, val |-> ""]
\* An error of the backend handed on as it is.
RawError(e) == [NoRet EXCEPT !.kind = "error", !.err = e]
\* A non-error value: a status, a result labelled with its language, a channel.
Value(v) == [NoRet EXCEPT !.kind = "value", !.val = v]
\* &executor.ExecutionResult{Error: err}
ResultWithError(e) == [e EXCEPT !.kind = "resultWithError"]
\* errors.Is(r, closure) through SandboxError.Is / Unwrap
ErrorsIs(r, target) == r.kind \in {"SandboxError", "error"} /\ r.err = target

Range(s) == { s[i] : i \in 1..Len(s) }

\* One call of the backend Instance as the model records it: the method, the
\* language in the options handed to it ("" where the method takes none), and
\* the value sandbox.stopped has at that moment.
BackendCall(m, l) == [method |-> m, language |-> l, flag |-> stopped]

\* A call starts.  Process numbers carry no meaning, so calls take them in the
\* order in which they start.
Idle(p) == pc[p] = "idle" /\ \A q \in Procs : q < p => pc[q] # "idle"

\* ---------------------------------------------------------------- event bus
\* The subscriptions Bus.Emit ranges over for an event of this type: the
\* type-specific ones and the catch-all ones.
Matching(type) == Range(subscribers[type]) \cup Range(allSubs)

\* Bus.Emit(event) by source src: `go sub.handler(event)` for every matching
\* subscription.  A task is one spawned goroutine: the subscription it serves
\* and the event (the idx-th emit of src) it carries.
Emit(src, type) ==
    /\ emitted' = [emitted EXCEPT ![src] = Append(@, type)]
    /\ tasks' = tasks \cup
         { [id |-> s.id, handler |-> s.handler, src |-> src,
            idx |-> Len(emitted[src]) + 1] : s \in Matching(type) }
    /\ UNCHANGED <<subscribers, allSubs, nextID, handled>>

\* One goroutine spawned by Bus.Emit runs its handler.
HandlerRun(t) ==
    /\ t \in tasks /\ t.handler \in UserHandlers \cup {GlobalHandler}
    /\ tasks' = tasks \ {t}
    /\ handled' = handled \cup {t}
    /\ UNCHANGED <<config, extVars, stopped, instStatus, subscribers, allSubs, nextID, emitted,
                   callVars, chanVars, streamVars>>

\* sandbox.Subscribe(eventType, handler) = Bus.Subscribe.
Subscribe(type, h) ==
    /\ nextID - Len(allSubs) < MaxSubs
    /\ subscribers' = [subscribers EXCEPT ![type] = Append(@, [id |-> nextID, handler |-> h])]
    /\ nextID' = nextID + 1
    /\ UNCHANGED <<config, extVars, stopped, instStatus, allSubs, tasks, handled, emitted,
                   callVars, chanVars, streamVars>>

\* -------------------------------------------------------------------- Stop
\* Stop as it would be without the early return on a set flag.
StopNotIdempotent(p) ==
    /\ Idle(p)
    /\ op' = [op EXCEPT ![p] = "stop"]
    /\ stopped' = TRUE
    /\ pc' = [pc EXCEPT ![p] = "backend"]
    /\ UNCHANGED <<config, extVars, instStatus, busVars, optLang, det, lang, ret, goret, observed,
                   bcalls, bres, chanVars, streamVars>>

\* Stop as it would be if it left the flag alone before calling the backend.
StopWithoutFlag(p) ==
    /\ Idle(p)
    /\ op' = [op EXCEPT ![p] = "stop"]
    /\ IF stopped
       THEN /\ ret' = [ret EXCEPT ![p] = Nil]
            /\ pc' = [pc EXCEPT ![p] = "done"]
            /\ observed' = [observed EXCEPT ![p] = TRUE]
       ELSE /\ pc' = [pc EXCEPT ![p] = "backend"]
            /\ UNCHANGED <<ret, observed>>
    /\ UNCHANGED <<config, extVars, stopped, instStatus, busVars, optLang, det, lang, goret, bcalls,
                   bres, chanVars, streamVars>>

\* sandbox.Stop, the critical section: return nil when the flag is set, else
\* set it and go on to the backend.
StopEnter(p) ==
    /\ Idle(p)
    /\ op' = [op EXCEPT ![p] = "stop"]
    /\ IF stopped
       THEN /\ ret' = [ret EXCEPT ![p] = Nil]
            /\ pc' = [pc EXCEPT ![p] = "done"]
            /\ observed' = [observed EXCEPT ![p] = TRUE]
            /\ UNCHANGED stopped
       ELSE /\ stopped' = TRUE
            /\ pc' = [pc EXCEPT ![p] = "backend"]
            /\ UNCHANGED <<ret, observed>>
    /\ UNCHANGED <<config, extVars, instStatus, busVars, optLang, det, lang, goret, bcalls, bres,
                   chanVars, streamVars>>

\* Stop as it would be if it cleared the flag again after a failed backend Stop.
StopBackendResets(p, ok) ==
    /\ op[p] = "stop" /\ pc[p] = "backend"
    /\ bcalls' = [bcalls EXCEPT ![p] = Append(@, BackendCall("Stop", ""))]
    /\ bres' = [bres EXCEPT ![p] = IF ok THEN "ok" ELSE "err"]
    /\ instStatus' = IF ok THEN StatusStopped ELSE instStatus
    /\ stopped' = ok
    /\ pc' = [pc EXCEPT ![p] = "emitEnd"]
    /\ UNCHANGED <<config, extVars, busVars, op, optLang, det, lang, ret, goret, observed,
                   chanVars, streamVars>>

\* sandbox.Stop: err := s.instance.Stop(ctx), with mockInstance.Stop as backend.
StopBackend(p, ok) ==
    /\ op[p] = "stop" /\ pc[p] = "backend"
    /\ bcalls' = [bcalls EXCEPT ![p] = Append(@, BackendCall("Stop", ""))]
    /\ bres' = [bres EXCEPT ![p] = IF ok THEN "ok" ELSE "err"]
    /\ instStatus' = IF ok THEN StatusStopped ELSE instStatus
    /\ pc' = [pc EXCEPT ![p] = "emitEnd"]
    /\ UNCHANGED <<config, extVars, stopped, busVars, op, optLang, det, lang, ret, goret, observed,
                   chanVars, streamVars>>

\* Stop as it would be if it emitted sandbox.stopped after a failed backend Stop
\* as well.
StopEmitBoth(p) ==
    /\ op[p] = "stop" /\ pc[p] = "emitEnd"
    /\ Emit(p, EventSandboxStopped)
    /\ ret' = [ret EXCEPT ![p] = IF bres[p] = "err" THEN NewError("stop", ErrBackend) ELSE Nil]
    /\ pc' = [pc EXCEPT ![p] = "done"]
    /\ UNCHANGED <<config, extVars, stopped, instStatus, op, optLang, det, lang, goret, observed,
                   bcalls, bres, chanVars, streamVars>>

\* sandbox.Stop: emit sandbox.error or sandbox.stopped, and return.
StopEmit(p) ==
    /\ op[p] = "stop" /\ pc[p] = "emitEnd"
    /\ IF bres[p] = "err"
       THEN /\ Emit(p, EventSandboxError)
            /\ ret' = [ret EXCEPT ![p] = NewError("stop", ErrBackend)]
       ELSE /\ Emit(p, EventSandboxStopped)
            /\ ret' = [ret EXCEPT ![p] = Nil]
    /\ pc' = [pc EXCEPT ![p] = "done"]
    /\ UNCHANGED <<config, extVars, stopped, instStatus, op, optLang, det, lang, goret, observed,
                   bcalls, bres, chanVars, streamVars>>

\* ------------------------------------------------------------------ Status
\* Status as it would be without the short-circuit on a set flag.
StatusDelegates(p) ==
    /\ Idle(p)
    /\ op' = [op EXCEPT ![p] = "status"]
    /\ pc' = [pc EXCEPT ![p] = "backend"]
    /\ UNCHANGED <<config, extVars, stopped, instStatus, busVars, optLang, det, lang, ret, goret,
                   observed, bcalls, bres, chanVars, streamVars>>

\* sandbox.Status, the read of the flag: stopped without consulting the backend.
StatusEnter(p) ==
    /\ Idle(p)
    /\ op' = [op EXCEPT ![p] = "status"]
    /\ IF stopped
       THEN /\ ret' = [ret EXCEPT ![p] = Value(StatusStopped)]
            /\ pc' = [pc EXCEPT ![p] = "done"]
            /\ observed' = [observed EXCEPT ![p] = TRUE]
       ELSE /\ pc' = [pc EXCEPT ![p] = "backend"]
            /\ UNCHANGED <<ret, observed>>
    /\ UNCHANGED <<config, extVars, stopped, instStatus, busVars, optLang, det, lang, goret, bcalls,
                   bres, chanVars, streamVars>>

\* sandbox.Status: return s.instance.Status(ctx), with mockInstance.Status as backend.
StatusBackend(p) ==
    /\ op[p] = "status" /\ pc[p] = "backend"
    /\ bcalls' = [bcalls EXCEPT ![p] = Append(@, BackendCall("Status", ""))]
    /\ ret' = [ret EXCEPT ![p] = Value(instStatus)]
    /\ pc' = [pc EXCEPT ![p] = "done"]
    /\ UNCHANGED <<config, extVars, stopped, instStatus, busVars, op, optLang, det, lang, goret,
                   observed, bres, chanVars, streamVars>>

\* -------------------------------------------------------------- RunCommand
\* RunCommand as it would be without the check of the flag.
RunCommandUnchecked(p) ==
    /\ Idle(p)
    /\ op' = [op EXCEPT ![p] = "runCommand"]
    /\ pc' = [pc EXCEPT ![p] = "backend"]
    /\ UNCHANGED <<config, extVars, stopped, instStatus, busVars, optLang, det, lang, ret, goret,
                   observed, bcalls, bres, chanVars, streamVars>>

\* sandbox.RunCommand, the read of the flag.
RunCommandEnter(p) ==
    /\ Idle(p)
    /\ op' = [op EXCEPT ![p] = "runCommand"]
    /\ IF stopped
       THEN /\ ret' = [ret EXCEPT ![p] = NewError("runCommand", ErrSandboxStopped)]
            /\ pc' = [pc EXCEPT ![p] = "done"]
            /\ observed' = [observed EXCEPT ![p] = TRUE]
       ELSE /\ pc' = [pc EXCEPT ![p] = "backend"]
            /\ UNCHANGED <<ret, observed>>
    /\ UNCHANGED <<config, extVars, stopped, instStatus, busVars, optLang, det, lang, goret, bcalls,
                   bres, chanVars, streamVars>>

\* sandbox.RunCommand: return s.instance.RunCommand(ctx, cmd, args), the
\* backend's result and error handed on as they are.
RunCommandBackend(p, ok) ==
    /\ op[p] = "runCommand" /\ pc[p] = "backend"
    /\ bcalls' = [bcalls EXCEPT ![p] = Append(@, BackendCall("RunCommand", ""))]
    /\ bres' = [bres EXCEPT ![p] = IF ok THEN "ok" ELSE "err"]
    /\ ret' = [ret EXCEPT ![p] = IF ok THEN Value("ok") ELSE RawError(ErrBackend)]
    /\ pc' = [pc EXCEPT ![p] = "done"]
    /\ UNCHANGED <<config, extVars, stopped, instStatus, busVars, op, optLang, det, lang, goret,
                   observed, chanVars, streamVars>>

\* ----------------------------------------------------------------- Execute
\* Whether sandbox.Execute / sandbox.ExecuteStream run the detector at all:
\* `if language == "" && s.config.AutoDetectLanguage`.
Detects(l) == l = "" /\ config.autoDetect

\* The language resolution as it would be if the configured default came
\* before the detector's answer.
ResolveDefaultFirst(l, d) ==
    IF Detects(l)
    THEN IF config.defaultLanguage # "" THEN [ok |-> TRUE, lang |-> config.defaultLanguage]
         ELSE IF d # "" THEN [ok |-> TRUE, lang |-> d]
         ELSE [ok |-> FALSE, lang |-> ""]
    ELSE [ok |-> TRUE, lang |-> l]

\* The language-resolution block of sandbox.Execute and sandbox.ExecuteStream:
\* l is execCfg.Language, d the detector's answer.  ok = FALSE is the
\* ErrLanguageDetectionFailed return.
ResolveLanguage(l, d) ==
    IF Detects(l)
    THEN IF d # "" THEN [ok |-> TRUE, lang |-> d]
         ELSE IF config.defaultLanguage # "" THEN [ok |-> TRUE, lang |-> config.defaultLanguage]
         ELSE [ok |-> FALSE, lang |-> ""]
    ELSE [ok |-> TRUE, lang |-> l]

\* A return of sandbox.Execute: to the caller, or (async) to the goroutine of
\* ExecuteAsync, which then sends on the channel.
ReturnExecute(p, async, r) ==
    IF async
    THEN /\ goret' = [goret EXCEPT ![p] = r]
         /\ pc' = [pc EXCEPT ![p] = "send"]
         /\ UNCHANGED ret
    ELSE /\ ret' = [ret EXCEPT ![p] = r]
         /\ pc' = [pc EXCEPT ![p] = "done"]
         /\ UNCHANGED goret

\* sandbox.Execute up to the start event: the read of the flag, then the
\* language resolution.
ExecuteBegin(p, async, l, d) ==
    /\ optLang' = [optLang EXCEPT ![p] = l]
    /\ det' = [det EXCEPT ![p] = IF Detects(l) THEN d ELSE ""]
    /\ IF stopped
       THEN /\ observed' = [observed EXCEPT ![p] = TRUE]
            /\ ReturnExecute(p, async, NewError("execute", ErrSandboxStopped))
            /\ UNCHANGED lang
       ELSE IF ResolveLanguage(l, d).ok
            THEN /\ lang' = [lang EXCEPT ![p] = ResolveLanguage(l, d).lang]
                 /\ pc' = [pc EXCEPT ![p] = "emitStart"]
                 /\ UNCHANGED <<ret, goret, observed>>
            ELSE /\ ReturnExecute(p, async, NewError("execute", ErrLanguageDetectionFailed))
                 /\ UNCHANGED <<lang, observed>>

\* A caller's sandbox.Execute(ctx, code, opts...).
ExecuteEnter(p, l, d) ==
    /\ Idle(p)
    /\ op' = [op EXCEPT ![p] = "execute"]
    /\ ExecuteBegin(p, FALSE, l, d)
    /\ UNCHANGED <<config, extVars, stopped, instStatus, busVars, bcalls, bres, chanVars, streamVars>>

\* Execute as it would be without the emit of execution.started.
ExecuteSkipStarted(p) ==
    /\ op[p] \in {"execute", "executeAsync"} /\ pc[p] = "emitStart"
    /\ pc' = [pc EXCEPT ![p] = "backend"]
    /\ UNCHANGED <<config, extVars, stopped, instStatus, busVars, op, optLang, det, lang, ret, goret,
                   observed, bcalls, bres, chanVars, streamVars>>

\* sandbox.Execute: s.eventBus.Emit(execution.started).
ExecuteEmitStarted(p) ==
    /\ op[p] \in {"execute", "executeAsync"} /\ pc[p] = "emitStart"
    /\ Emit(p, EventExecutionStarted)
    /\ pc' = [pc EXCEPT ![p] = "backend"]
    /\ UNCHANGED <<config, extVars, stopped, instStatus, op, optLang, det, lang, ret, goret, observed,
                   bcalls, bres, chanVars, streamVars>>

\* sandbox.Execute: result, err := s.instance.Execute(ctx, code, execOpts).
ExecuteBackend(p, ok) ==
    /\ op[p] \in {"execute", "executeAsync"} /\ pc[p] = "backend"
    /\ bcalls' = [bcalls EXCEPT ![p] = Append(@, BackendCall("Execute", lang[p]))]
    /\ bres' = [bres EXCEPT ![p] = IF ok THEN "ok" ELSE "err"]
    /\ pc' = [pc EXCEPT ![p] = "emitEnd"]
    /\ UNCHANGED <<config, extVars, stopped, instStatus, busVars, op, optLang, det, lang, ret, goret,
                   observed, chanVars, streamVars>>

\* The error a backend call ended with.
BackendError(res) ==
    CASE res = "timeout" -> ErrDockerTimedOut
      [] res = "canceled" -> ErrContextCanceled
      [] OTHER -> ErrBackend

\* sandbox.Execute: emit execution.error and return the wrapped error, or label
\* the result, emit execution.complete and return the result.
ExecuteEmitEnd(p) ==
    /\ op[p] \in {"execute", "executeAsync"} /\ pc[p] = "emitEnd"
    /\ IF bres[p] # "ok"
       THEN /\ Emit(p, EventExecutionError)
            /\ ReturnExecute(p, op[p] = "executeAsync",
                             NewError("execute", BackendError(bres[p])))
       ELSE /\ Emit(p, EventExecutionComplete)
            /\ ReturnExecute(p, op[p] = "executeAsync", Value(lang[p]))
    /\ UNCHANGED <<config, extVars, stopped, instStatus, op, optLang, det, lang, observed, bcalls,
                   bres, chanVars, streamVars>>

\* ------------------------------------------------- Execute on a docker Instance
\* ctx.Deadline() of a context: none, or an instant of the clock.
NoDeadline == [set |-> FALSE, at |-> 0]
Deadline(t) == [set |-> TRUE, at |-> t]
\* ctx.Err() == context.DeadlineExceeded
Expired(dl) == dl.set /\ now >= dl.at
\* context.WithTimeout(parent, d): the child ends at now + d, or with its
\* parent when that is earlier.
WithTimeout(parent, d) ==
    IF parent.set /\ parent.at <= now + d THEN parent ELSE Deadline(now + d)

NoRun == [ctx |-> NoDeadline, timeout |-> 0, at |-> 0, execCtx |-> NoDeadline]

\* Time passes.
Tick ==
    /\ now < MaxTime
    /\ now' = now + 1
    /\ UNCHANGED <<config, stopped, instStatus, busVars, callVars, chanVars, streamVars,
                   ctxDeadline, execTimeout, run, nonTimeVars>>

\* The docker Instance as it would be if its run context were made from
\* context.Background() instead of from the context it is given.
DockerExecuteDetached(p) ==
    /\ op[p] = "execute" /\ pc[p] = "backend"
    /\ bcalls' = [bcalls EXCEPT ![p] = Append(@, BackendCall("Execute", lang[p]))]
    /\ run' = [run EXCEPT ![p] =
          [ctx |-> ctxDeadline[p], timeout |-> execTimeout[p], at |-> now,
           execCtx |-> IF execTimeout[p] > 0
                       THEN Deadline(now + execTimeout[p]) ELSE NoDeadline]]
    /\ pc' = [pc EXCEPT ![p] = "running"]
    /\ UNCHANGED <<config, stopped, instStatus, busVars, op, optLang, det, lang, ret, goret,
                   observed, bres, chanVars, streamVars, now, ctxDeadline, execTimeout,
                   nonTimeVars>>

\* sandbox.Execute calls s.instance.Execute(ctx, code, execOpts) with the
\* caller's ctx and execOpts.Timeout = execCfg.Timeout, and the docker Instance
\* starts the run under execCtx: ctx itself, or context.WithTimeout(ctx,
\* opts.Timeout) when opts.Timeout > 0.
DockerExecuteBegin(p) ==
    /\ op[p] = "execute" /\ pc[p] = "backend"
    /\ bcalls' = [bcalls EXCEPT ![p] = Append(@, BackendCall("Execute", lang[p]))]
    /\ run' = [run EXCEPT ![p] =
          [ctx |-> ctxDeadline[p], timeout |-> execTimeout[p], at |-> now,
           execCtx |-> IF execTimeout[p] > 0
                       THEN WithTimeout(ctxDeadline[p], execTimeout[p])
                       ELSE ctxDeadline[p]]]
    /\ pc' = [pc EXCEPT ![p] = "running"]
    /\ UNCHANGED <<config, stopped, instStatus, busVars, op, optLang, det, lang, ret, goret,
                   observed, bres, chanVars, streamVars, now, ctxDeadline, execTimeout,
                   nonTimeVars>>

\* The docker Instance: runExec returns before execCtx is done, with a result
\* or with an error of its own.
DockerExecuteEnd(p, ok) ==
    /\ op[p] = "execute" /\ pc[p] = "running"
    /\ ~Expired(run[p].execCtx)
    /\ bres' = [bres EXCEPT ![p] = IF ok THEN "ok" ELSE "err"]
    /\ pc' = [pc EXCEPT ![p] = "emitEnd"]
    /\ UNCHANGED <<config, stopped, instStatus, busVars, op, optLang, det, lang, ret, goret,
                   observed, bcalls, chanVars, streamVars, timeVars, nonTimeVars>>

\* The docker Instance: runExec fails with execCtx past its deadline
\* (execCtx.Err() == context.DeadlineExceeded), and Execute returns
\* fmt.Errorf("execution timed out after %v: %w ...").
DockerExecuteTimeout(p) ==
    /\ op[p] = "execute" /\ pc[p] = "running"
    /\ Expired(run[p].execCtx)
    /\ bres' = [bres EXCEPT ![p] = "timeout"]
    /\ pc' = [pc EXCEPT ![p] = "emitEnd"]
    /\ UNCHANGED <<config, stopped, instStatus, busVars, op, optLang, det, lang, ret, goret,
                   observed, bcalls, chanVars, streamVars, timeVars, nonTimeVars>>

\* The docker Instance: the caller cancels ctx before execCtx is past its
\* deadline; runExec fails and Execute returns its error as it is.
DockerExecuteCancel(p) ==
    /\ op[p] = "execute" /\ pc[p] = "running"
    /\ ~Expired(run[p].execCtx)
    /\ bres' = [bres EXCEPT ![p] = "canceled"]
    /\ pc' = [pc EXCEPT ![p] = "emitEnd"]
    /\ UNCHANGED <<config, stopped, instStatus, busVars, op, optLang, det, lang, ret, goret,
                   observed, bcalls, chanVars, streamVars, timeVars, nonTimeVars>>

\* ------------------------------------------------------------ ExecuteAsync
\* sandbox.ExecuteAsync as the caller sees it: the read of the flag, then the
\* channel is made, the goroutine spawned and the channel returned.
AsyncEnter(p, l, d) ==
    /\ Idle(p)
    /\ op' = [op EXCEPT ![p] = "executeAsync"]
    /\ optLang' = [optLang EXCEPT ![p] = l]
    /\ det' = [det EXCEPT ![p] = IF Detects(l) THEN d ELSE ""]
    /\ IF stopped
       THEN /\ ret' = [ret EXCEPT ![p] = NewError("executeAsync", ErrSandboxStopped)]
            /\ pc' = [pc EXCEPT ![p] = "done"]
            /\ observed' = [observed EXCEPT ![p] = TRUE]
       ELSE /\ ret' = [ret EXCEPT ![p] = Value("chan")]
            /\ pc' = [pc EXCEPT ![p] = "goExecute"]
            /\ UNCHANGED observed
    /\ UNCHANGED <<config, extVars, stopped, instStatus, busVars, lang, goret, bcalls, bres,
                   chanVars, streamVars>>

\* The goroutine of ExecuteAsync: result, err := s.Execute(ctx, code, opts...).
GoExecute(p) ==
    /\ op[p] = "executeAsync" /\ pc[p] = "goExecute"
    /\ ExecuteBegin(p, TRUE, optLang[p], det[p])
    /\ UNCHANGED <<config, extVars, stopped, instStatus, busVars, op, bcalls, bres, chanVars,
                   streamVars>>

\* The goroutine as it would be without the `return` after the send of the
\* failed result: it goes on to send the nil result as well.
AsyncSendNoReturn(p) ==
    /\ op[p] = "executeAsync" /\ pc[p] = "send"
    /\ Len(chanBuf[p]) < ChanCap
    /\ chanBuf' = [chanBuf EXCEPT ![p] =
          Append(@, IF goret[p].kind = "value" THEN goret[p] ELSE ResultWithError(goret[p]))]
    /\ sent' = [sent EXCEPT ![p] = @ + 1]
    /\ pc' = [pc EXCEPT ![p] =
          IF goret[p].kind = "value" \/ sent[p] > 0 THEN "close" ELSE "send"]
    /\ UNCHANGED <<config, extVars, stopped, instStatus, busVars, op, optLang, det, lang, ret, goret,
                   observed, bcalls, bres, chanClosed, streamVars>>

\* The goroutine of ExecuteAsync: results <- result (or the result with Error
\* set).  A send on a buffered channel blocks while the buffer is full.
AsyncSend(p) ==
    /\ op[p] = "executeAsync" /\ pc[p] = "send"
    /\ Len(chanBuf[p]) < ChanCap
    /\ chanBuf' = [chanBuf EXCEPT ![p] =
          Append(@, IF goret[p].kind = "value" THEN goret[p] ELSE ResultWithError(goret[p]))]
    /\ sent' = [sent EXCEPT ![p] = @ + 1]
    /\ pc' = [pc EXCEPT ![p] = "close"]
    /\ UNCHANGED <<config, extVars, stopped, instStatus, busVars, op, optLang, det, lang, ret, goret,
                   observed, bcalls, bres, chanClosed, streamVars>>

\* The goroutine of ExecuteAsync: defer close(results).
AsyncClose(p) ==
    /\ op[p] = "executeAsync" /\ pc[p] = "close"
    /\ chanClosed' = [chanClosed EXCEPT ![p] = TRUE]
    /\ pc' = [pc EXCEPT ![p] = "done"]
    /\ UNCHANGED <<config, extVars, stopped, instStatus, busVars, op, optLang, det, lang, ret, goret,
                   observed, bcalls, bres, chanBuf, sent, streamVars>>

\* The caller of ExecuteAsync receives from the channel: result := <-results.
Receive(p) ==
    /\ op[p] = "executeAsync" /\ ret[p] = Value("chan")
    /\ chanBuf[p] # <<>>
    /\ chanBuf' = [chanBuf EXCEPT ![p] = Tail(@)]
    /\ UNCHANGED <<config, extVars, stopped, instStatus, busVars, callVars, chanClosed, sent,
                   streamVars>>

\* ----------------------------------------------------------- ExecuteStream
\* sandbox.ExecuteStream up to the start event: the read of the flag, then the
\* language resolution.
StreamEnter(p, l, d) ==
    /\ Idle(p)
    /\ op' = [op EXCEPT ![p] = "executeStream"]
    /\ optLang' = [optLang EXCEPT ![p] = l]
    /\ det' = [det EXCEPT ![p] = IF Detects(l) THEN d ELSE ""]
    /\ IF stopped
       THEN /\ observed' = [observed EXCEPT ![p] = TRUE]
            /\ ret' = [ret EXCEPT ![p] = NewError("executeStream", ErrSandboxStopped)]
            /\ pc' = [pc EXCEPT ![p] = "done"]
            /\ UNCHANGED lang
       ELSE IF ResolveLanguage(l, d).ok
            THEN /\ lang' = [lang EXCEPT ![p] = ResolveLanguage(l, d).lang]
                 /\ pc' = [pc EXCEPT ![p] = "emitStart"]
                 /\ UNCHANGED <<ret, observed>>
            ELSE /\ ret' = [ret EXCEPT ![p] =
                        NewError("executeStream", ErrLanguageDetectionFailed)]
                 /\ pc' = [pc EXCEPT ![p] = "done"]
                 /\ UNCHANGED <<lang, observed>>
    /\ UNCHANGED <<config, extVars, stopped, instStatus, busVars, goret, bcalls, bres, chanVars,
                   streamVars>>

\* ExecuteStream as it would be without the start event to the handler.
StreamEmitStartedOnly(p) ==
    /\ op[p] = "executeStream" /\ pc[p] = "emitStart"
    /\ Emit(p, EventExecutionStarted)
    /\ pc' = [pc EXCEPT ![p] = "backend"]
    /\ UNCHANGED <<config, extVars, stopped, instStatus, op, optLang, det, lang, ret, goret, observed,
                   bcalls, bres, chanVars, streamVars>>

\* sandbox.ExecuteStream: handler(StreamStart), then Emit(execution.started).
StreamEmitStarted(p) ==
    /\ op[p] = "executeStream" /\ pc[p] = "emitStart"
    /\ hlog' = [hlog EXCEPT ![p] = Append(@, StreamStart)]
    /\ Emit(p, EventExecutionStarted)
    /\ pc' = [pc EXCEPT ![p] = "backend"]
    /\ UNCHANGED <<config, extVars, stopped, instStatus, op, optLang, det, lang, ret, goret, observed,
                   bcalls, bres, chanVars, script, issued>>

\* sandbox.ExecuteStream: s.instance.ExecuteStream(ctx, code, execOpts, handler)
\* is called; s is what this backend run will hand to the handler.
StreamBackend(p, s) ==
    /\ op[p] = "executeStream" /\ pc[p] = "backend"
    /\ bcalls' = [bcalls EXCEPT ![p] = Append(@, BackendCall("ExecuteStream", lang[p]))]
    /\ script' = [script EXCEPT ![p] = s]
    /\ pc' = [pc EXCEPT ![p] = "streaming"]
    /\ UNCHANGED <<config, extVars, stopped, instStatus, busVars, op, optLang, det, lang, ret, goret,
                   observed, bres, chanVars, issued, hlog>>

\* The backend, inside ExecuteStream, calls the handler with its next event
\* (mockInstance.ExecuteStream: handler(stdout "Hello"); handler(complete 0)).
StreamEvent(p) ==
    /\ op[p] = "executeStream" /\ pc[p] = "streaming"
    /\ script[p] # <<>>
    /\ issued' = [issued EXCEPT ![p] = Append(@, Head(script[p]))]
    /\ hlog' = [hlog EXCEPT ![p] = Append(@, Head(script[p]))]
    /\ script' = [script EXCEPT ![p] = Tail(@)]
    /\ UNCHANGED <<config, extVars, stopped, instStatus, busVars, callVars, chanVars>>

\* sandbox.ExecuteStream: the backend returns; on an error emit
\* execution.error and return it wrapped, otherwise return nil.
StreamReturn(p, ok) ==
    /\ op[p] = "executeStream" /\ pc[p] = "streaming"
    /\ script[p] = <<>>
    /\ bres' = [bres EXCEPT ![p] = IF ok THEN "ok" ELSE "err"]
    /\ IF ok
       THEN /\ ret' = [ret EXCEPT ![p] = Nil]
            /\ UNCHANGED busVars
       ELSE /\ Emit(p, EventExecutionError)
            /\ ret' = [ret EXCEPT ![p] = NewError("executeStream", ErrBackend)]
    /\ pc' = [pc EXCEPT ![p] = "done"]
    /\ UNCHANGED <<config, extVars, stopped, instStatus, op, optLang, det, lang, goret, observed,
                   bcalls, chanVars, streamVars>>

\* ----------------------------------------------------------- calls on the Bus
\* The event types and the handler of the calls on the Bus, and the list of
\* types given to SubscribeMultiple.
BusTypes == {EventExecutionStarted, EventExecutionComplete}
MultipleTypes == <<EventExecutionStarted, EventExecutionComplete>>
\* The place of Bus.allSubs among the lists of subscriptions.
AllTypes == "*"

\* b.mu is read-locked from the start of an EmitSync to its return; Lock()
\* waits until then.  (Emit and SubscriberCount hold the read lock for one
\* step.)
RLocked == \E p \in Procs : op[p] = "emitSync" /\ pc[p] \in {"typed", "all", "typedInClear", "allInClear"}
\* A handler that calls b.Clear() on the Bus that delivers to it.
ClearingHandler == "hClear"
\* The handler that the EmitSync of process p is running has called b.Clear().
InHandlerClear(p) == op[p] = "emitSync" /\ pc[p] \in {"typedInClear", "allInClear"}

\* The Bus before any emit has looked at it.
NotSeen == [subscribers |-> [t \in EventTypes |-> <<>>], allSubs |-> <<>>, removed |-> {}]
Seen == [subscribers |-> subscribers, allSubs |-> allSubs, removed |-> removed]

\* Bus.Emit as it would be without its second loop.
SpawnsTypedOnly(type) == subscribers[type]
\* The subscriptions Bus.Emit starts a goroutine for, in order: the loop over
\* b.subscribers[event.Type], then the loop over b.allSubs.
Spawns(type) == subscribers[type] \o allSubs

\* The loop of unsubscribe as it would be with append(subs[:i], subs[i:]...).
RemoveKeeps(subs, id) == subs
\* for i, sub := range subs { if sub.id == id { append(subs[:i], subs[i+1:]...); return } }
Remove(subs, id) ==
    IF \E i \in 1..Len(subs) : subs[i].id = id
    THEN LET i == CHOOSE i \in 1..Len(subs) :
                      subs[i].id = id /\ \A j \in 1..(i - 1) : subs[j].id # id
         IN  SubSeq(subs, 1, i - 1) \o SubSeq(subs, i + 1, Len(subs))
    ELSE subs

\* Bus.unsubscribe as it would be if it dropped the whole list of the type.
unsubscribeWholeType(eventType, id) ==
    /\ subscribers' = [subscribers EXCEPT ![eventType] = <<>>]
    /\ UNCHANGED allSubs
\* Bus.unsubscribe(eventType, id) and Bus.unsubscribeAll(id).
unsubscribe(eventType, id) ==
    /\ subscribers' = [subscribers EXCEPT ![eventType] = Remove(@, id)]
    /\ UNCHANGED allSubs
unsubscribeAll(id) ==
    /\ allSubs' = Remove(allSubs, id)
    /\ UNCHANGED subscribers

RECURSIVE SumLen(_, _)
SumLen(f, S) ==
    IF S = {} THEN 0
    ELSE LET t == CHOOSE t \in S : TRUE IN Len(f[t]) + SumLen(f, S \ {t})

\* Bus.SubscriberCount as it would be without len(b.allSubs).
SubscriberCountTypedOnly == SumLen(subscribers, DOMAIN subscribers)
\* Bus.SubscriberCount: len(b.allSubs) plus the length of every list of the map.
SubscriberCount == Len(allSubs) + SumLen(subscribers, DOMAIN subscribers)

\* Bus.Subscribe(eventType, handler) by process p.
BusSubscribe(p, type, h) ==
    /\ Idle(p) /\ ~RLocked
    /\ op' = [op EXCEPT ![p] = "subscribe"]
    /\ subscribers' =
         [subscribers EXCEPT ![type] = Append(@, [id |-> nextID, handler |-> h, by |-> p])]
    /\ nextID' = nextID + 1
    /\ unsubscribers' = [unsubscribers EXCEPT ![p] = <<[type |-> type, id |-> nextID]>>]
    /\ pc' = [pc EXCEPT ![p] = "done"]
    /\ UNCHANGED <<sandboxVars, nonBusVars, allSubs, tasks, handled, emitted, pending, closure,
                   calls, seen, removed, counted>>

\* Bus.SubscribeAll(handler) by process p.
BusSubscribeAll(p, h) ==
    /\ Idle(p) /\ ~RLocked
    /\ op' = [op EXCEPT ![p] = "subscribeAll"]
    /\ allSubs' = Append(allSubs, [id |-> nextID, handler |-> h, by |-> p])
    /\ nextID' = nextID + 1
    /\ unsubscribers' = [unsubscribers EXCEPT ![p] = <<[type |-> AllTypes, id |-> nextID]>>]
    /\ pc' = [pc EXCEPT ![p] = "done"]
    /\ UNCHANGED <<sandboxVars, nonBusVars, subscribers, tasks, handled, emitted, pending,
                   closure, calls, seen, removed, counted>>

\* Bus.SubscribeMultiple(eventTypes, handler) by process p: the call starts.
SubscribeMultipleBegin(p, types, h) ==
    /\ Idle(p)
    /\ op' = [op EXCEPT ![p] = "subscribeMultiple"]
    /\ pending' = [pending EXCEPT ![p] = [i \in 1..Len(types) |-> [type |-> types[i], handler |-> h]]]
    /\ pc' = [pc EXCEPT ![p] = "subscribing"]
    /\ UNCHANGED <<sandboxVars, nonBusVars, busVars, unsubscribers, closure, calls, seen,
                   removed, counted>>

\* Bus.SubscribeMultiple, one turn of its loop: b.Subscribe(et, handler), whose
\* func() joins unsubscribers.  After the last turn the call returns.
SubscribeMultipleStep(p) ==
    /\ op[p] = "subscribeMultiple" /\ pc[p] = "subscribing" /\ ~RLocked
    /\ LET e == Head(pending[p]) IN
         /\ subscribers' =
              [subscribers EXCEPT ![e.type] =
                  Append(@, [id |-> nextID, handler |-> e.handler, by |-> p])]
         /\ unsubscribers' =
              [unsubscribers EXCEPT ![p] = Append(@, [type |-> e.type, id |-> nextID])]
    /\ nextID' = nextID + 1
    /\ pending' = [pending EXCEPT ![p] = Tail(@)]
    /\ pc' = [pc EXCEPT ![p] = IF Tail(pending[p]) = <<>> THEN "done" ELSE "subscribing"]
    /\ UNCHANGED <<sandboxVars, nonBusVars, allSubs, tasks, handled, emitted, op, closure,
                   calls, seen, removed, counted>>

\* Process p invokes the func() that the subscribe call of process q returned.
UnsubscribeCall(p, q) ==
    /\ Idle(p)
    /\ op[q] \in {"subscribe", "subscribeAll", "subscribeMultiple"} /\ pc[q] = "done"
    /\ op' = [op EXCEPT ![p] = "unsubscribe"]
    /\ closure' = [closure EXCEPT ![p] = q]
    /\ pending' = [pending EXCEPT ![p] = unsubscribers[q]]
    /\ pc' = [pc EXCEPT ![p] = "unsubscribing"]
    /\ UNCHANGED <<sandboxVars, nonBusVars, busVars, unsubscribers, calls, seen, removed,
                   counted>>

\* One b.unsubscribe(eventType, id) or b.unsubscribeAll(id) of the func(); the
\* func() returns after the last one.
UnsubscribeStep(p) ==
    /\ op[p] = "unsubscribe" /\ pc[p] = "unsubscribing" /\ ~RLocked
    /\ LET e == Head(pending[p]) IN
         /\ IF e.type = AllTypes THEN unsubscribeAll(e.id) ELSE unsubscribe(e.type, e.id)
         /\ removed' = removed \cup {e.id}
    /\ pending' = [pending EXCEPT ![p] = Tail(@)]
    /\ pc' = [pc EXCEPT ![p] = IF Tail(pending[p]) = <<>> THEN "done" ELSE "unsubscribing"]
    /\ UNCHANGED <<sandboxVars, nonBusVars, nextID, tasks, handled, emitted, op,
                   unsubscribers, closure, calls, seen, counted>>

\* Bus.Clear by process p, or by the handler that the EmitSync of process p
\* is running: b.mu.Lock() waits for every read lock to be released, the two
\* maps are reset, and the call returns (in a handler, the handler then
\* returns to the loop of EmitSync).
Clear(p) ==
    /\ (Idle(p) \/ InHandlerClear(p)) /\ ~RLocked
    /\ subscribers' = [t \in EventTypes |-> <<>>]
    /\ allSubs' = <<>>
    /\ IF Idle(p)
       THEN /\ op' = [op EXCEPT ![p] = "clear"]
            /\ pc' = [pc EXCEPT ![p] = "done"]
            /\ UNCHANGED <<pending, calls>>
       ELSE /\ calls' = [calls EXCEPT ![p] = Append(@, Head(pending[p]))]
            /\ pending' = [pending EXCEPT ![p] = Tail(@)]
            /\ pc' = [pc EXCEPT ![p] = IF pc[p] = "typedInClear" THEN "typed" ELSE "all"]
            /\ UNCHANGED op
    /\ UNCHANGED <<sandboxVars, nonBusVars, nextID, tasks, handled, emitted, unsubscribers,
                   closure, seen, removed, counted>>

\* One goroutine spawned by Bus.Emit runs a handler that calls b.Clear().
HandlerRunClear(t) ==
    /\ t \in tasks /\ t.handler = ClearingHandler
    /\ ~RLocked
    /\ subscribers' = [type \in EventTypes |-> <<>>]
    /\ allSubs' = <<>>
    /\ tasks' = tasks \ {t}
    /\ handled' = handled \cup {t}
    /\ UNCHANGED <<sandboxVars, nonBusVars, nextID, emitted, op, pc, busCallVars>>

\* Bus.SubscriberCount by process p.
SubscriberCountCall(p) ==
    /\ Idle(p)
    /\ op' = [op EXCEPT ![p] = "subscriberCount"]
    /\ counted' = [counted EXCEPT ![p] = SubscriberCount]
    /\ pc' = [pc EXCEPT ![p] = "done"]
    /\ UNCHANGED <<sandboxVars, nonBusVars, busVars, unsubscribers, pending, closure, calls,
                   seen, removed>>

\* Bus.Emit(event) by process p.
BusEmit(p, type) ==
    /\ Idle(p)
    /\ op' = [op EXCEPT ![p] = "emit"]
    /\ Emit(p, type)
    /\ calls' = [calls EXCEPT ![p] = Spawns(type)]
    /\ seen' = [seen EXCEPT ![p] = Seen]
    /\ pc' = [pc EXCEPT ![p] = "done"]
    /\ UNCHANGED <<sandboxVars, nonBusVars, unsubscribers, pending, closure, removed, counted>>

\* Bus.EmitSync(event) by process p: RLock, and the first loop starts.
EmitSyncBegin(p, type) ==
    /\ Idle(p)
    /\ op' = [op EXCEPT ![p] = "emitSync"]
    /\ emitted' = [emitted EXCEPT ![p] = Append(@, type)]
    /\ pending' = [pending EXCEPT ![p] = subscribers[type]]
    /\ seen' = [seen EXCEPT ![p] = Seen]
    /\ pc' = [pc EXCEPT ![p] = "typed"]
    /\ UNCHANGED <<sandboxVars, nonBusVars, subscribers, allSubs, nextID, tasks, handled,
                   unsubscribers, closure, calls, removed, counted>>

\* Bus.EmitSync as it would be with `go sub.handler(event)` in its loops.
EmitSyncSpawns(p) ==
    /\ op[p] = "emitSync" /\ pc[p] \in {"typed", "all"}
    /\ pending[p] # <<>>
    /\ tasks' = tasks \cup
         { [id |-> Head(pending[p]).id, handler |-> Head(pending[p]).handler, src |-> p,
            idx |-> Len(emitted[p])] }
    /\ pending' = [pending EXCEPT ![p] = Tail(@)]
    /\ UNCHANGED <<sandboxVars, nonBusVars, subscribers, allSubs, nextID, handled, emitted, op,
                   pc, unsubscribers, closure, calls, seen, removed, counted>>

\* Bus.EmitSync, one turn of a loop: sub.handler(event) runs and calls
\* b.Clear(); EmitSync still holds the read lock (defer b.mu.RUnlock()).
EmitSyncHandlerCalls(p) ==
    /\ op[p] = "emitSync" /\ pc[p] \in {"typed", "all"}
    /\ pending[p] # <<>> /\ Head(pending[p]).handler = ClearingHandler
    /\ pc' = [pc EXCEPT ![p] = IF pc[p] = "typed" THEN "typedInClear" ELSE "allInClear"]
    /\ UNCHANGED <<sandboxVars, nonBusVars, busVars, op, unsubscribers, pending, closure,
                   calls, seen, removed, counted>>

\* Bus.EmitSync, one turn of a loop: sub.handler(event) runs and returns.
EmitSyncHandler(p) ==
    /\ op[p] = "emitSync" /\ pc[p] \in {"typed", "all"}
    /\ pending[p] # <<>> /\ Head(pending[p]).handler # ClearingHandler
    /\ calls' = [calls EXCEPT ![p] = Append(@, Head(pending[p]))]
    /\ pending' = [pending EXCEPT ![p] = Tail(@)]
    /\ UNCHANGED <<sandboxVars, nonBusVars, busVars, op, pc, unsubscribers, closure, seen,
                   removed, counted>>

\* Bus.EmitSync: the first loop is over, the loop over b.allSubs starts.
EmitSyncNext(p) ==
    /\ op[p] = "emitSync" /\ pc[p] = "typed"
    /\ pending[p] = <<>>
    /\ pending' = [pending EXCEPT ![p] = allSubs]
    /\ pc' = [pc EXCEPT ![p] = "all"]
    /\ UNCHANGED <<sandboxVars, nonBusVars, busVars, op, unsubscribers, closure, calls, seen,
                   removed, counted>>

\* Bus.EmitSync: the second loop is over; RUnlock and return.
EmitSyncReturn(p) ==
    /\ op[p] = "emitSync" /\ pc[p] = "all"
    /\ pending[p] = <<>>
    /\ pc' = [pc EXCEPT ![p] = "done"]
    /\ UNCHANGED <<sandboxVars, nonBusVars, busVars, op, unsubscribers, pending, closure, calls,
                   seen, removed, counted>>

\* ------------------------------------------- OutputStream, MultiStreamWriter
\* The two streams of a MultiStreamWriter.
Streams == {StreamStdout, StreamStderr}
\* The inline handlers a caller registers with OnEvent.
StreamHandlers == {"sh1"}

\* NewMultiStreamWriter(bufferSize): two open streams without handlers, the
\* combined channel, and a forward goroutine at the head of its loop for each
\* stream.
NewMultiStreamWriter ==
    /\ closed = [s \in Streams |-> FALSE]
    /\ events = [s \in Streams |-> <<>>]
    /\ closes = [s \in Streams |-> 0]
    /\ handlers = [s \in Streams |-> <<>>]
    /\ closeReturned = [s \in Streams |-> FALSE]
    /\ mclosed = FALSE
    /\ mevents = <<>>
    /\ mcloses = 0
    /\ mlock = 0
    /\ fwd = [s \in Streams |-> [pc |-> "range", event |-> 0]]
    /\ stream = [p \in Procs |-> ""]
    /\ afterClose = [p \in Procs |-> FALSE]
    /\ registered = [p \in Procs |-> <<>>]
    /\ earlier = [p \in Procs |-> {}]
    /\ invoked = [p \in Procs |-> <<>>]
    /\ put = [p \in Procs |-> 0]

\* The writes on stream s that have returned.
Returned(s) ==
    { q \in Procs : op[q] \in {"write", "writeEvent"} /\ stream[q] = s /\ pc[q] = "done" }

\* The event of the write of process p on stream s.
StreamEventOf(p, s) == [type |-> s, data |-> p]

\* OutputStream.WriteEvent, its read-locked section: return io.ErrClosedPipe
\* when the stream is closed, else take s.handlers and go on to the send.
WriteEventLocked(p, s) ==
    IF closed[s]
    THEN /\ ret' = [ret EXCEPT ![p] = RawError(ErrClosedPipe)]
         /\ pc' = [pc EXCEPT ![p] = "done"]
         /\ UNCHANGED pending
    ELSE /\ pending' = [pending EXCEPT ![p] = handlers[s]]
         /\ pc' = [pc EXCEPT ![p] = "send"]
         /\ UNCHANGED ret

\* OutputStream.Write as it would be without its check of s.closed, calling a
\* WriteEvent without one.
WriteUnchecked(p, s) ==
    /\ Idle(p)
    /\ op' = [op EXCEPT ![p] = "write"]
    /\ stream' = [stream EXCEPT ![p] = s]
    /\ afterClose' = [afterClose EXCEPT ![p] = closeReturned[s]]
    /\ registered' = [registered EXCEPT ![p] = handlers[s]]
    /\ earlier' = [earlier EXCEPT ![p] = Returned(s)]
    /\ pending' = [pending EXCEPT ![p] = handlers[s]]
    /\ pc' = [pc EXCEPT ![p] = "send"]
    /\ UNCHANGED <<nonPipeVars, ret, closed, events, closes, handlers, closeReturned, mclosed,
                   mevents, mcloses, mlock, fwd, invoked, put>>

\* OutputStream.Write(p) on stream s: the check of s.closed under RLock.
WriteEnter(p, s) ==
    /\ Idle(p)
    /\ op' = [op EXCEPT ![p] = "write"]
    /\ stream' = [stream EXCEPT ![p] = s]
    /\ afterClose' = [afterClose EXCEPT ![p] = closeReturned[s]]
    /\ registered' = [registered EXCEPT ![p] = handlers[s]]
    /\ earlier' = [earlier EXCEPT ![p] = Returned(s)]
    /\ IF closed[s]
       THEN /\ ret' = [ret EXCEPT ![p] = RawError(ErrClosedPipe)]
            /\ pc' = [pc EXCEPT ![p] = "done"]
       ELSE /\ pc' = [pc EXCEPT ![p] = "writeEvent"]
            /\ UNCHANGED ret
    /\ UNCHANGED <<nonPipeVars, pending, closed, events, closes, handlers, closeReturned,
                   mclosed, mevents, mcloses, mlock, fwd, invoked, put>>

\* OutputStream.Write: s.WriteEvent(event), up to the end of its read-locked
\* section.
WriteCallsWriteEvent(p) ==
    /\ op[p] = "write" /\ pc[p] = "writeEvent"
    /\ WriteEventLocked(p, stream[p])
    /\ UNCHANGED <<nonPipeVars, op, pipeVars>>

\* OutputStream.WriteEvent(event) on stream s, called directly, up to the end
\* of its read-locked section.
WriteEventEnter(p, s) ==
    /\ Idle(p)
    /\ op' = [op EXCEPT ![p] = "writeEvent"]
    /\ stream' = [stream EXCEPT ![p] = s]
    /\ afterClose' = [afterClose EXCEPT ![p] = closeReturned[s]]
    /\ registered' = [registered EXCEPT ![p] = handlers[s]]
    /\ earlier' = [earlier EXCEPT ![p] = Returned(s)]
    /\ WriteEventLocked(p, s)
    /\ UNCHANGED <<nonPipeVars, closed, events, closes, handlers, closeReturned, mclosed,
                   mevents, mcloses, mlock, fwd, invoked, put>>

\* OutputStream.WriteEvent, the loop over the handlers it took: every handler
\* returns nil (k = 0) and WriteEvent returns nil, or the k-th is the first to
\* return an error, which ends the loop and is what WriteEvent returns.
HandlersLoop(p, k) ==
    IF k = 0
    THEN /\ invoked' = [invoked EXCEPT ![p] = pending[p]]
         /\ ret' = [ret EXCEPT ![p] = Nil]
    ELSE /\ invoked' = [invoked EXCEPT ![p] = SubSeq(pending[p], 1, k)]
         /\ ret' = [ret EXCEPT ![p] = RawError(ErrHandler)]

\* OutputStream.WriteEvent as it would be if a full channel ended it before
\* the handlers.
WriteEventSendSkipsOnFull(p) ==
    /\ op[p] \in {"write", "writeEvent"} /\ pc[p] = "send"
    /\ LET s == stream[p] IN
         IF closes[s] > 0
         THEN /\ pc' = [pc EXCEPT ![p] = "panic"]
              /\ UNCHANGED <<events, put, invoked, ret>>
         ELSE /\ IF Len(events[s]) < BufferSize
                 THEN /\ events' = [events EXCEPT ![s] = Append(@, StreamEventOf(p, s))]
                      /\ put' = [put EXCEPT ![p] = @ + 1]
                      /\ \E k \in 0..Len(pending[p]) : HandlersLoop(p, k)
                 ELSE /\ ret' = [ret EXCEPT ![p] = Nil]
                      /\ UNCHANGED <<events, put, invoked>>
              /\ pc' = [pc EXCEPT ![p] = "done"]
    /\ pending' = [pending EXCEPT ![p] = <<>>]
    /\ UNCHANGED <<nonPipeVars, op, closed, closes, handlers, closeReturned, mclosed, mevents,
                   mcloses, mlock, fwd, stream, afterClose, registered, earlier>>

\* OutputStream.WriteEvent as it would be with a plain `s.events <- event`,
\* which waits for room in the buffer.
WriteEventSendBlocking(p) ==
    /\ op[p] \in {"write", "writeEvent"} /\ pc[p] = "send"
    /\ closes[stream[p]] > 0 \/ Len(events[stream[p]]) < BufferSize
    /\ LET s == stream[p] IN
         IF closes[s] > 0
         THEN /\ pc' = [pc EXCEPT ![p] = "panic"]
              /\ UNCHANGED <<events, put, invoked, ret>>
         ELSE /\ events' = [events EXCEPT ![s] = Append(@, StreamEventOf(p, s))]
              /\ put' = [put EXCEPT ![p] = @ + 1]
              /\ invoked' = [invoked EXCEPT ![p] = pending[p]]
              /\ ret' = [ret EXCEPT ![p] = Nil]
              /\ pc' = [pc EXCEPT ![p] = "done"]
    /\ pending' = [pending EXCEPT ![p] = <<>>]
    /\ UNCHANGED <<nonPipeVars, op, closed, closes, handlers, closeReturned, mclosed, mevents,
                   mcloses, mlock, fwd, stream, afterClose, registered, earlier>>

\* OutputStream.WriteEvent from its select to its return:
\* select { case s.events <- event: default: }, which panics when the channel
\* has been closed, puts the event in the buffer when there is room and drops
\* it when there is none; then the loop over the handlers it took; return nil
\* (Write: return len(p), nil).
WriteEventSend(p) ==
    /\ op[p] \in {"write", "writeEvent"} /\ pc[p] = "send"
    /\ LET s == stream[p] IN
         IF closes[s] > 0
         THEN /\ pc' = [pc EXCEPT ![p] = "panic"]
              /\ UNCHANGED <<events, put, invoked, ret>>
         ELSE /\ IF Len(events[s]) < BufferSize
                 THEN /\ events' = [events EXCEPT ![s] = Append(@, StreamEventOf(p, s))]
                      /\ put' = [put EXCEPT ![p] = @ + 1]
                 ELSE UNCHANGED <<events, put>>
              /\ \E k \in 0..Len(pending[p]) : HandlersLoop(p, k)
              /\ pc' = [pc EXCEPT ![p] = "done"]
    /\ pending' = [pending EXCEPT ![p] = <<>>]
    /\ UNCHANGED <<nonPipeVars, op, closed, closes, handlers, closeReturned, mclosed, mevents,
                   mcloses, mlock, fwd, stream, afterClose, registered, earlier>>

\* OutputStream.OnEvent(handler) on stream s.
OnEvent(p, s, h) ==
    /\ Idle(p)
    /\ op' = [op EXCEPT ![p] = "onEvent"]
    /\ stream' = [stream EXCEPT ![p] = s]
    /\ handlers' = [handlers EXCEPT ![s] = Append(@, [handler |-> h, by |-> p])]
    /\ pc' = [pc EXCEPT ![p] = "done"]
    /\ UNCHANGED <<nonPipeVars, ret, pending, closed, events, closes, closeReturned, mclosed,
                   mevents, mcloses, mlock, fwd, afterClose, registered, earlier, invoked, put>>

\* MultiStreamWriter.OnEvent(handler) by process p: m.stdout.OnEvent(handler).
MultiOnEventStdout(p, h) ==
    /\ Idle(p)
    /\ op' = [op EXCEPT ![p] = "multiOnEvent"]
    /\ handlers' = [handlers EXCEPT ![StreamStdout] = Append(@, [handler |-> h, by |-> p])]
    /\ pending' = [pending EXCEPT ![p] = <<[handler |-> h, by |-> p]>>]
    /\ pc' = [pc EXCEPT ![p] = "onStderr"]
    /\ UNCHANGED <<nonPipeVars, ret, closed, events, closes, closeReturned, mclosed, mevents,
                   mcloses, mlock, fwd, stream, afterClose, registered, earlier, invoked, put>>

\* MultiStreamWriter.OnEvent: m.stderr.OnEvent(handler), and return.
MultiOnEventStderr(p) ==
    /\ op[p] = "multiOnEvent" /\ pc[p] = "onStderr"
    /\ handlers' = [handlers EXCEPT ![StreamStderr] = Append(@, Head(pending[p]))]
    /\ pending' = [pending EXCEPT ![p] = <<>>]
    /\ pc' = [pc EXCEPT ![p] = "done"]
    /\ UNCHANGED <<nonPipeVars, op, ret, closed, events, closes, closeReturned, mclosed,
                   mevents, mcloses, mlock, fwd, stream, afterClose, registered, earlier, invoked, put>>

\* The locked section of OutputStream.Close as it would be without the test of
\* s.closed.
CloseLockedUnguarded(s) ==
    /\ closed' = [closed EXCEPT ![s] = TRUE]
    /\ closes' = [closes EXCEPT ![s] = @ + 1]
    /\ closeReturned' = [closeReturned EXCEPT ![s] = TRUE]
\* OutputStream.Close, its locked section and its return:
\* if !s.closed { s.closed = true; close(s.events) }; return nil.
CloseLocked(s) ==
    /\ closed' = [closed EXCEPT ![s] = TRUE]
    /\ closes' = [closes EXCEPT ![s] = IF closed[s] THEN @ ELSE @ + 1]
    /\ closeReturned' = [closeReturned EXCEPT ![s] = TRUE]

\* OutputStream.Close() on stream s by process p.
StreamClose(p, s) ==
    /\ Idle(p)
    /\ op' = [op EXCEPT ![p] = "close"]
    /\ stream' = [stream EXCEPT ![p] = s]
    /\ CloseLocked(s)
    /\ ret' = [ret EXCEPT ![p] = Nil]
    /\ pc' = [pc EXCEPT ![p] = "done"]
    /\ UNCHANGED <<nonPipeVars, pending, events, handlers, mclosed, mevents, mcloses, mlock,
                   fwd, afterClose, registered, earlier, invoked, put>>

\* MultiStreamWriter.Close() by process p: m.mu.Lock(), then return nil when
\* m.closed is set, else set it and go on, holding the lock.
MultiCloseEnter(p) ==
    /\ Idle(p) /\ mlock = 0
    /\ op' = [op EXCEPT ![p] = "multiClose"]
    /\ IF mclosed
       THEN /\ ret' = [ret EXCEPT ![p] = Nil]
            /\ pc' = [pc EXCEPT ![p] = "done"]
            /\ UNCHANGED <<mclosed, mlock>>
       ELSE /\ mclosed' = TRUE
            /\ mlock' = p
            /\ pc' = [pc EXCEPT ![p] = "closeStdout"]
            /\ UNCHANGED ret
    /\ UNCHANGED <<nonPipeVars, pending, closed, events, closes, handlers, closeReturned,
                   mevents, mcloses, fwd, stream, afterClose, registered, earlier, invoked, put>>

\* MultiStreamWriter.Close: m.stdout.Close(), then m.stderr.Close().
MultiCloseStream(p) ==
    /\ op[p] = "multiClose" /\ pc[p] \in {"closeStdout", "closeStderr"}
    /\ CloseLocked(IF pc[p] = "closeStdout" THEN StreamStdout ELSE StreamStderr)
    /\ pc' = [pc EXCEPT ![p] = IF pc[p] = "closeStdout" THEN "closeStderr" ELSE "closeEvents"]
    /\ UNCHANGED <<nonPipeVars, op, ret, pending, events, handlers, mclosed, mevents, mcloses,
                   mlock, fwd, stream, afterClose, registered, earlier, invoked, put>>

\* MultiStreamWriter.Close: close(m.events), unlock, return nil.
MultiCloseEvents(p) ==
    /\ op[p] = "multiClose" /\ pc[p] = "closeEvents"
    /\ mcloses' = mcloses + 1
    /\ mlock' = 0
    /\ ret' = [ret EXCEPT ![p] = Nil]
    /\ pc' = [pc EXCEPT ![p] = "done"]
    /\ UNCHANGED <<nonPipeVars, op, pending, closed, events, closes, handlers, closeReturned,
                   mclosed, mevents, fwd, stream, afterClose, registered, earlier, invoked, put>>

\* MultiStreamWriter.forward(src) for stream s: `for event := range src` takes
\* the next event, or ends the loop when src is closed and empty.
ForwardRange(s) ==
    /\ fwd[s].pc = "range"
    /\ events[s] # <<>> \/ closes[s] > 0
    /\ IF events[s] # <<>>
       THEN /\ fwd' = [fwd EXCEPT ![s] = [pc |-> "send", event |-> Head(events[s])]]
            /\ events' = [events EXCEPT ![s] = Tail(@)]
       ELSE /\ fwd' = [fwd EXCEPT ![s] = [pc |-> "exit", event |-> 0]]
            /\ UNCHANGED events
    /\ UNCHANGED <<nonPipeVars, op, pc, ret, pending, closed, closes, handlers, closeReturned,
                   mclosed, mevents, mcloses, mlock, stream, afterClose, registered, earlier, invoked, put>>

\* MultiStreamWriter.forward as it would be if it put its event ahead of the
\* events that wait in m.events.
ForwardSendAhead(s) ==
    /\ fwd[s].pc = "send" /\ mlock = 0
    /\ mevents' =
         IF ~mclosed /\ Len(mevents) < 2 * BufferSize
         THEN <<fwd[s].event>> \o mevents ELSE mevents
    /\ fwd' = [fwd EXCEPT ![s] = [pc |-> "range", event |-> 0]]
    /\ UNCHANGED <<nonPipeVars, op, pc, ret, pending, closed, events, closes, handlers,
                   closeReturned, mclosed, mcloses, mlock, stream, afterClose, registered,
                   earlier, invoked, put>>

ForwardSendUnchecked(s) ==
    /\ fwd[s].pc = "send" /\ mlock = 0
    /\ mevents' =
         IF Len(mevents) < 2 * BufferSize
         THEN Append(mevents, fwd[s].event) ELSE mevents
    /\ fwd' = [fwd EXCEPT ![s] = [pc |-> "range", event |-> 0]]
    /\ UNCHANGED <<nonPipeVars, op, pc, ret, pending, closed, events, closes, handlers,
                   closeReturned, mclosed, mcloses, mlock, stream, afterClose, registered,
                   earlier, invoked, put>>

\* MultiStreamWriter.forward, the body of the loop under m.mu.RLock(): when
\* m.closed is not set, put the event on m.events if there is room.
ForwardSend(s) ==
    /\ fwd[s].pc = "send" /\ mlock = 0
    /\ mevents' =
         IF ~mclosed /\ Len(mevents) < 2 * BufferSize
         THEN Append(mevents, fwd[s].event) ELSE mevents
    /\ fwd' = [fwd EXCEPT ![s] = [pc |-> "range", event |-> 0]]
    /\ UNCHANGED <<nonPipeVars, op, pc, ret, pending, closed, events, closes, handlers,
                   closeReturned, mclosed, mcloses, mlock, stream, afterClose, registered, earlier, invoked, put>>

\* ------------------------------------------------------------ langdetect
\* A string the detector takes apart is a sequence of its characters.
MainPy == <<"m", "a", "i", "n", ".", "p", "y">>
Makefile == <<"M", "a", "k", "e", "f", "i", "l", "e">>
Filenames == {MainPy, Makefile}
\* The extensions AddMapping is called with.
Exts == {<<".", "p", "y">>, <<".", "g", "o">>}
\* The languages go-enry answers and the ones AddMapping is called with.
EnryLangs == {"Python", "Go"}
\* The languages whose patterns the code of a Detect call can match.
HeuristicLangs == {"Kotlin", "Scala"}

\* filepath.Ext(path): the suffix beginning at the final dot, "" if none.
Ext(path) ==
    LET dots == { i \in 1..Len(path) : path[i] = "." }
    IN  IF dots = {} THEN <<>>
        ELSE SubSeq(path, CHOOSE i \in dots : \A j \in dots : j <= i, Len(path))

\* An answer of enry.GetLanguageBy...: (language, safe).
NoAnswer == [lang |-> "", safe |-> FALSE]
EnryAnswers ==
    {NoAnswer} \cup [lang : EnryLangs, safe : {TRUE}] \cup [lang : {"Python"}, safe : {FALSE}]
\* What go-enry answers for one filename and one code: GetLanguageByFilename,
\* GetLanguageByExtension, GetLanguageByShebang, GetLanguages, GetLanguage.
NoEnry ==
    [byFilename |-> NoAnswer, byExtension |-> NoAnswer, byShebang |-> NoAnswer,
     languages |-> <<>>, language |-> ""]
Enrys ==
    { e \in [byFilename : {NoAnswer, [lang |-> "Python", safe |-> TRUE]},
             byExtension : EnryAnswers,
             byShebang : {NoAnswer, [lang |-> "Python", safe |-> TRUE]},
             languages : {<<>>, <<"Python">>, <<"Python", "Go">>},
             language : {"", "Python"}] :
          e.language # "" => Len(e.languages) > 1 }

\* What the detector reads off the code: whether it begins with "#!" after
\* TrimSpace, and per language the number of its patterns the code matches
\* (scores of detectByPatterns; a language without a match has no entry).
NoCode == [shebang |-> FALSE, scores |-> [l \in HeuristicLangs |-> 0]]
Codes == [shebang : BOOLEAN, scores : [HeuristicLangs -> 0..MaxMatches]]

\* DefaultDetectOptions()
DefaultDetectOptions ==
    [nil |-> FALSE, Filename |-> <<>>, UseContent |-> TRUE, UseShebang |-> TRUE,
     UseHeuristics |-> TRUE]
\* opts == nil
NilOptions ==
    [nil |-> TRUE, Filename |-> <<>>, UseContent |-> FALSE, UseShebang |-> FALSE,
     UseHeuristics |-> FALSE]
DetectOptions ==
    {NilOptions} \cup [nil : {FALSE}, Filename : {<<>>, MainPy}, UseContent : BOOLEAN,
                       UseShebang : BOOLEAN, UseHeuristics : BOOLEAN]

\* &DetectResult{Language, Confidence, Method}; Confidence in hundredths.
DetectResult(l, c, m) == [Language |-> l, Confidence |-> c, Method |-> m]
\* The result of a call that has not returned; detectByPatterns' nil.
NoResult == DetectResult("", 0, "")
Unknown == DetectResult("", 0, "unknown")

\* New(), with the inputs of the calls on it.
NewDetector(opts, files, enrys, codes) ==
    /\ dopts \in opts
    /\ filename \in files
    /\ enry \in enrys
    /\ code \in codes
    /\ customMappings = <<>>
    /\ detected = [p \in Procs |-> NoResult]

New == NewDetector({NilOptions}, {MainPy}, {NoEnry}, {NoCode})

\* The orders a range over the map scores can take: every order of the
\* languages that have an entry.
Orders ==
    LET scored == { l \in HeuristicLangs : code.scores[l] > 0 }
    IN  { o \in [1..Cardinality(scored) -> scored] :
            \A i, j \in DOMAIN o : o[i] = o[j] => i = j }

\* The loop "for lang, score := range scores" of detectByPatterns from the
\* i-th language of the order on: a language replaces the best one only
\* with a strictly higher score.
RECURSIVE FindBest(_, _, _)
FindBest(order, i, best) ==
    IF i > Len(order) THEN best
    ELSE LET score == code.scores[order[i]]
         IN  FindBest(order, i + 1,
                      IF score > best.score THEN [lang |-> order[i], score |-> score]
                      ELSE best)

Clamp(c) == IF c > 80 THEN 80 ELSE IF c < 20 THEN 20 ELSE c

\* detectByPatterns(code), the range over scores taking the given order.
detectByPatterns(order) ==
    LET best == FindBest(order, 1, [lang |-> "", score |-> 0])
    IN  IF best.score >= 1
        THEN DetectResult(best.lang, Clamp(best.score * 20), "heuristic")
        ELSE NoResult

\* Detector.Detect(code, opts), the range over scores taking the given order.
Detect(opts, order) ==
    LET o == IF opts.nil THEN DefaultDetectOptions ELSE opts
        named(a) == a.safe /\ a.lang # ""
    IN  IF o.Filename # <<>> /\ named(enry.byFilename)
        THEN DetectResult(enry.byFilename.lang, 100, "filename")
        ELSE IF o.Filename # <<>> /\ named(enry.byExtension)
        THEN DetectResult(enry.byExtension.lang, 95, "extension")
        ELSE IF o.UseShebang /\ code.shebang /\ named(enry.byShebang)
        THEN DetectResult(enry.byShebang.lang, 95, "shebang")
        ELSE IF o.UseContent /\ Len(enry.languages) = 1
        THEN DetectResult(enry.languages[1], 90, "content")
        ELSE IF o.UseContent /\ Len(enry.languages) > 1 /\ enry.language # ""
        THEN DetectResult(enry.language, 80, "classifier")
        ELSE IF o.UseHeuristics /\ detectByPatterns(order) # NoResult
        THEN detectByPatterns(order)
        ELSE Unknown

DetectFromFilenameEnryFirst(f) ==
    IF enry.byFilename.safe /\ enry.byFilename.lang # ""
    THEN DetectResult(enry.byFilename.lang, 100, "filename")
    ELSE IF enry.byExtension.safe
    THEN DetectResult(enry.byExtension.lang, 95, "extension")
    ELSE IF Ext(f) \in DOMAIN customMappings
    THEN DetectResult(customMappings[Ext(f)], 100, "custom")
    ELSE Unknown
\* Detector.DetectFromFilename(filename)
DetectFromFilename(f) ==
    IF Ext(f) \in DOMAIN customMappings
    THEN DetectResult(customMappings[Ext(f)], 100, "custom")
    ELSE IF enry.byFilename.safe /\ enry.byFilename.lang # ""
    THEN DetectResult(enry.byFilename.lang, 100, "filename")
    ELSE IF enry.byExtension.safe
    THEN DetectResult(enry.byExtension.lang, 95, "extension")
    ELSE Unknown

\* A call of Detect(code, opts) by process p.
DetectCall(p, order) ==
    /\ Idle(p)
    /\ op' = [op EXCEPT ![p] = "detect"]
    /\ detected' = [detected EXCEPT ![p] = Detect(dopts, order)]
    /\ pc' = [pc EXCEPT ![p] = "done"]
    /\ UNCHANGED <<nonDetectVars, dopts, filename, code, enry, customMappings>>

\* A call of DetectFromFilename(filename) by process p.
DetectFromFilenameCall(p) ==
    /\ Idle(p)
    /\ op' = [op EXCEPT ![p] = "detectFromFilename"]
    /\ detected' = [detected EXCEPT ![p] = DetectFromFilename(filename)]
    /\ pc' = [pc EXCEPT ![p] = "done"]
    /\ UNCHANGED <<nonDetectVars, dopts, filename, code, enry, customMappings>>

\* Detector.AddMapping(extension, language) by process p.
AddMapping(p, extension, language) ==
    /\ Idle(p)
    /\ op' = [op EXCEPT ![p] = "addMapping"]
    /\ customMappings' = [e \in DOMAIN customMappings \cup {extension} |->
                              IF e = extension THEN language ELSE customMappings[e]]
    /\ pc' = [pc EXCEPT ![p] = "done"]
    /\ UNCHANGED <<nonDetectVars, dopts, filename, code, enry, detected>>

\* ------------------------------------------------------- ExecutionOptions
\* A map of Go: nil, or its entries.
NilMap == [nil |-> TRUE, entries |-> {}]
MakeMap(e) == [nil |-> FALSE, entries |-> e]
\* (*ExecutionOptions)(nil)
NilExecutionOptions ==
    [nil |-> TRUE, Language |-> "", Filename |-> "", Timeout |-> 0, Env |-> NilMap,
     WorkDir |-> "", Stdin |-> "", Files |-> NilMap, KeepArtifacts |-> FALSE]
\* DefaultExecutionOptions(): 30 seconds, "/workspace", two empty maps.
DefaultExecutionOptions ==
    [NilExecutionOptions EXCEPT !.nil = FALSE, !.Timeout = DefaultTimeout,
                                !.WorkDir = "/workspace", !.Env = MakeMap({}),
                                !.Files = MakeMap({})]
\* The receivers of Merge: nil and every choice of set and unset fields.
ReceiverOptions ==
    {NilExecutionOptions} \cup
    [nil : {FALSE}, Language : {"", "Go"}, Filename : {"", "main.go"}, Timeout : {0, 60},
     Env : {NilMap, MakeMap({}), MakeMap({<<"FOO", "bar">>})}, WorkDir : {"", "/app"},
     Stdin : {"", "input"}, Files : {NilMap, MakeMap({<<"test.txt", "test">>})},
     KeepArtifacts : BOOLEAN]
\* The arguments of Merge: the package's defaults and defaults that set
\* every field.
DefaultOptions ==
    {DefaultExecutionOptions,
     [nil |-> FALSE, Language |-> "Python", Filename |-> "main.py", Timeout |-> DefaultTimeout,
      Env |-> MakeMap({<<"HOME", "/root">>}), WorkDir |-> "/workspace", Stdin |-> "default",
      Files |-> MakeMap({<<"lib.py", "lib">>}), KeepArtifacts |-> TRUE]}

\* The options of the Merge calls.
MergeInit(receivers, arguments) ==
    /\ options \in receivers
    /\ defaults \in arguments
    /\ merged = [p \in Procs |-> NilExecutionOptions]

\* ExecutionOptions.Merge(defaults) on the receiver o.
Merge(o, d) ==
    IF o.nil THEN d
    ELSE [o EXCEPT !.Timeout = IF @ = 0 THEN d.Timeout ELSE @,
                   !.WorkDir = IF @ = "" THEN d.WorkDir ELSE @,
                   !.Env = IF @.nil THEN d.Env ELSE @,
                   !.Files = IF @.nil THEN d.Files ELSE @]

\* A call of options.Merge(defaults) by process p.
MergeCall(p) ==
    /\ Idle(p)
    /\ op' = [op EXCEPT ![p] = "merge"]
    /\ merged' = [merged EXCEPT ![p] = Merge(options, defaults)]
    /\ pc' = [pc EXCEPT ![p] = "done"]
    /\ UNCHANGED <<nonMergeVars, options, defaults>>

\* ------------------------------------------ Execute on a backend Instance
Backends == {"docker", "nsjail"}
\* The languages of the Execute calls: one without and one with a compile
\* command in DefaultRuntimes, and one DefaultRuntimes does not have.
ExecLangs == {"Python", "C", "COBOL"}
\* RuntimeInfo.CompileCmd of DefaultRuntimes[l]; <<>> is nil.
CompileCmd(l) == IF l = "C" THEN <<"gcc", "-o", "/tmp/main">> ELSE <<>>
\* langdetect.GetRuntimeInfo(l): whether there is a RuntimeInfo.
GetRuntimeInfo(l) == l \in {"Python", "C"}

\* What a command writes to stderr.
CompilerOutput == "compiler output"
ProgramOutput == "program output"
\* A nil *ExecutionResult.
NilResult == [nil |-> TRUE, ExitCode |-> 0, Stderr |-> "", Language |-> ""]
ExecutionResult(e, s, l) == [nil |-> FALSE, ExitCode |-> e, Stderr |-> s, Language |-> l]
NoExec == [backend |-> "", language |-> ""]

\* No Execute call on a backend Instance yet.
NewInstances ==
    /\ exec = [p \in Procs |-> NoExec]
    /\ steps = [p \in Procs |-> <<>>]
    /\ result = [p \in Procs |-> NilResult]

\* What a compile command that ran to its end with exit code e makes of
\* the Execute call of backend b: docker's runExec returns its result with a
\* nil error and Execute drops the result; nsjail's CombinedOutput returns an
\* error for a non-zero exit code.
CompileEnds(b, e) == IF b = "nsjail" /\ e # 0 THEN "fail" ELSE "run"

\* Instance.Execute(ctx, code, opts) of backend b by process p with
\* opts.Language = l, up to the command it runs first; wrote is whether the
\* code file could be written.
BackendExecuteBegin(p, b, l, wrote) ==
    /\ Idle(p)
    /\ op' = [op EXCEPT ![p] = "backendExecute"]
    /\ exec' = [exec EXCEPT ![p] = [backend |-> b, language |-> l]]
    /\ IF ~GetRuntimeInfo(l)
       THEN /\ ret' = [ret EXCEPT ![p] = RawError(ErrUnsupportedLanguage)]
            /\ pc' = [pc EXCEPT ![p] = "done"]
       ELSE IF ~wrote
       THEN /\ ret' = [ret EXCEPT ![p] = RawError(ErrWriteCodeFile)]
            /\ pc' = [pc EXCEPT ![p] = "done"]
       ELSE /\ pc' = [pc EXCEPT ![p] = IF CompileCmd(l) # <<>> THEN "compile" ELSE "run"]
            /\ UNCHANGED ret
    /\ UNCHANGED <<nonCompileVars, steps, result>>

\* The compile step.  ran is whether the command ran to its end, e its exit
\* code.  A command that did not run is an error of docker's Execute and a
\* failed compilation of nsjail's.
BackendCompile(p, ran, e) ==
    /\ pc[p] = "compile"
    /\ steps' = [steps EXCEPT ![p] = Append(@, [cmd |-> "compile", ran |-> ran, exit |-> e])]
    /\ LET b == exec[p].backend
       IN  IF ran /\ CompileEnds(b, e) = "run"
           THEN /\ pc' = [pc EXCEPT ![p] = "run"]
                /\ UNCHANGED <<ret, result>>
           ELSE /\ pc' = [pc EXCEPT ![p] = "done"]
                /\ IF b = "docker"
                   THEN /\ ret' = [ret EXCEPT ![p] = RawError(ErrCompile)]
                        /\ UNCHANGED result
                   ELSE /\ ret' = [ret EXCEPT ![p] = Nil]
                        /\ result' = [result EXCEPT ![p] =
                               ExecutionResult(1, CompilerOutput, exec[p].language)]
    /\ UNCHANGED <<nonCompileVars, op, exec>>

\* The run step.  ran is whether the command ran to its end, e its exit
\* code.
BackendRun(p, ran, e) ==
    /\ pc[p] = "run"
    /\ steps' = [steps EXCEPT ![p] = Append(@, [cmd |-> "run", ran |-> ran, exit |-> e])]
    /\ IF ran
       THEN /\ ret' = [ret EXCEPT ![p] = Nil]
            /\ result' = [result EXCEPT ![p] =
                   ExecutionResult(e, ProgramOutput, exec[p].language)]
       ELSE /\ ret' = [ret EXCEPT ![p] = RawError(ErrRun)]
            /\ UNCHANGED result
    /\ pc' = [pc EXCEPT ![p] = "done"]
    /\ UNCHANGED <<nonCompileVars, op, exec>>

\* ------------------------------------------------- nsjail Provider, mock IDs
\* fmt.Sprintf("nsjail-%d", n): the prefix and the number.
NsjailID(n) == <<"nsjail", n>>
\* No Instance was built.
NoID == <<>>
ErrCreateSandboxDir == "create sandbox dir"
\* The calls that end in Provider.Close: the provider's own Close, and
\* Registry.Close and Registry.Unregister of the registry that caches it.
CloseOps == {"providerClose", "registryClose", "registryUnregister"}

\* A new nsjail Provider, cached by a registry, and no mock instance yet.
NewProvider ==
    /\ nano = 0
    /\ pmu = 0
    /\ rmu = 0
    /\ pinstances = {}
    /\ ids = [p \in Procs |-> NoID]
    /\ istopped = [p \in Procs |-> FALSE]
    /\ stopping = [p \in Procs |-> 0]
    /\ remaining = [p \in Procs |-> {}]
    /\ instanceCounter = 0
    /\ mockIDs = {}

\* The clock advances.
NanoTick ==
    /\ nano < MaxNano
    /\ nano' = nano + 1
    /\ UNCHANGED <<nonNsjailVars, op, pc, ret, pmu, rmu, pinstances, ids, istopped, stopping,
                   remaining, instanceCounter, mockIDs>>

\* Provider.Create by process p, up to the Instance it builds: the ID is read
\* off the clock; made is whether the sandbox directories could be made.
ProviderCreate(p, made) ==
    /\ Idle(p)
    /\ op' = [op EXCEPT ![p] = "create"]
    /\ IF made
       THEN /\ ids' = [ids EXCEPT ![p] = NsjailID(nano)]
            /\ pc' = [pc EXCEPT ![p] = "store"]
            /\ UNCHANGED ret
       ELSE /\ ret' = [ret EXCEPT ![p] = RawError(ErrCreateSandboxDir)]
            /\ pc' = [pc EXCEPT ![p] = "done"]
            /\ UNCHANGED ids
    /\ UNCHANGED <<nonNsjailVars, nano, pmu, rmu, pinstances, istopped, stopping, remaining,
                   instanceCounter, mockIDs>>

\* p.instances without the entry of this ID.
Delete(m, id) == { e \in m : e.id # id }

\* Provider.Create: p.mu.Lock(); p.instances[id] = instance; p.mu.Unlock(), and
\* the Instance is returned.
ProviderCreateStore(p) ==
    /\ op[p] = "create" /\ pc[p] = "store"
    /\ pmu = 0
    /\ pinstances' = Delete(pinstances, ids[p]) \cup {[id |-> ids[p], instance |-> p]}
    /\ ret' = [ret EXCEPT ![p] = Value("instance")]
    /\ pc' = [pc EXCEPT ![p] = "done"]
    /\ UNCHANGED <<nonNsjailVars, op, nano, pmu, rmu, ids, istopped, stopping, remaining,
                   instanceCounter, mockIDs>>

\* The instances Create has returned to its caller.
Built == { i \in Procs : op[i] = "create" /\ pc[i] = "done" /\ ids[i] # NoID }

\* Instance.Stop up to the flag, called on Instance i by process p, on its own
\* or from the range of Provider.Close: return nil when the flag is set, else
\* set it and go on to remove the Instance from its provider.
StopFlag(p, i, back) ==
    /\ stopping' = [stopping EXCEPT ![p] = i]
    /\ IF istopped[i]
       THEN /\ pc' = [pc EXCEPT ![p] = back]
            /\ UNCHANGED istopped
       ELSE /\ istopped' = [istopped EXCEPT ![i] = TRUE]
            /\ pc' = [pc EXCEPT ![p] = "remove"]

\* Instance.Stop(ctx) on Instance i by process p.
InstanceStop(p, i) ==
    /\ Idle(p) /\ i \in Built
    /\ op' = [op EXCEPT ![p] = "instanceStop"]
    /\ StopFlag(p, i, "done")
    /\ ret' = [ret EXCEPT ![p] = IF istopped[i] THEN Nil ELSE @]
    /\ UNCHANGED <<nonNsjailVars, nano, pmu, rmu, pinstances, ids, remaining,
                   instanceCounter, mockIDs>>

\* Instance.Stop: i.provider.mu.Lock(); delete(i.provider.instances, i.id);
\* i.provider.mu.Unlock(); return nil, to the caller or to the range of
\* Provider.Close.
InstanceStopRemove(p) ==
    /\ pc[p] = "remove"
    /\ pmu = 0
    /\ pinstances' = Delete(pinstances, ids[stopping[p]])
    /\ IF op[p] = "instanceStop"
       THEN /\ ret' = [ret EXCEPT ![p] = Nil]
            /\ pc' = [pc EXCEPT ![p] = "done"]
       ELSE /\ pc' = [pc EXCEPT ![p] = "ranging"]
            /\ UNCHANGED ret
    /\ UNCHANGED <<nonNsjailVars, op, nano, pmu, rmu, ids, istopped, stopping, remaining,
                   instanceCounter, mockIDs>>

\* Provider.Close by process p, called on the provider (how = "providerClose")
\* or by Registry.Close or Registry.Unregister, which hold r.mu until they
\* return: p.mu.Lock(), and the range over p.instances starts.
ProviderClose(p, how) ==
    /\ Idle(p)
    /\ pmu = 0
    /\ how # "providerClose" => rmu = 0
    /\ op' = [op EXCEPT ![p] = how]
    /\ pmu' = p
    /\ rmu' = IF how # "providerClose" THEN p ELSE rmu
    /\ remaining' = [remaining EXCEPT ![p] = { e.instance : e \in pinstances }]
    /\ pc' = [pc EXCEPT ![p] = "ranging"]
    /\ UNCHANGED <<nonNsjailVars, ret, nano, pinstances, ids, istopped, stopping,
                   instanceCounter, mockIDs>>

\* Provider.Close, one turn of the range: instance.Stop(context.Background()).
ProviderCloseRange(p, i) ==
    /\ op[p] \in CloseOps /\ pc[p] = "ranging"
    /\ i \in remaining[p]
    /\ remaining' = [remaining EXCEPT ![p] = @ \ {i}]
    /\ StopFlag(p, i, "ranging")
    /\ UNCHANGED <<nonNsjailVars, op, ret, nano, pmu, rmu, pinstances, ids,
                   instanceCounter, mockIDs>>

\* Provider.Close: the range is over; return nil, and the deferred unlocks.
ProviderCloseReturn(p) ==
    /\ op[p] \in CloseOps /\ pc[p] = "ranging"
    /\ remaining[p] = {}
    /\ pmu' = 0
    /\ rmu' = IF rmu = p THEN 0 ELSE rmu
    /\ ret' = [ret EXCEPT ![p] = Nil]
    /\ pc' = [pc EXCEPT ![p] = "done"]
    /\ UNCHANGED <<nonNsjailVars, op, nano, pinstances, ids, istopped, stopping, remaining,
                   instanceCounter, mockIDs>>

\* testutil.generateMockID(n): "mock-", then the rune 'a' + n%26, then the
\* rune '0' + n%10; a rune is its offset from the first one.
generateMockID(n) == <<"mock", n % 26, n % 10>>

\* testutil.NewMockInstance: id := atomic.AddUint64(&instanceCounter, 1), and
\* the ID of the instance is generateMockID(id).
NewMockInstance ==
    /\ instanceCounter < MaxMockInstances
    /\ instanceCounter' = instanceCounter + 1
    /\ mockIDs' = mockIDs \cup {generateMockID(instanceCounter + 1)}
    /\ UNCHANGED <<nonNsjailVars, op, pc, ret, nano, pmu, rmu, pinstances, ids, istopped,
                   stopping, remaining>>

\* ------------------------------------------- DefaultRuntimes, RuntimeRegistry
\* A RuntimeInfo: its Language, its Aliases, and its DockerImage for the other
\* fields.
RuntimeInfo(l, as, image) == [Language |-> l, Aliases |-> as, DockerImage |-> image]
\* The nil *RuntimeInfo, and the addresses of the RuntimeInfo values: the two
\* of DefaultRuntimes the model keeps, and the one a caller builds.
NilInfo == "nil"
Addresses == {"&Python", "&Go", "&MyLang"}
\* The images a caller writes into a RuntimeInfo.
Images == {"custom:latest"}
\* The names the lookups are made with.
Languages == {"Python", "python", "py", "Go", "golang", "MyLang", "ml", "Ruby"}
\* strings.ToLower on these names.
ToLower(str) ==
    CASE str = "Python" -> "python"
      [] str = "Go" -> "go"
      [] str = "MyLang" -> "mylang"
      [] OTHER -> str

\* The RuntimeInfo values as the package and the caller build them.
InitialHeap ==
    [a \in Addresses |->
        CASE a = "&Python" -> RuntimeInfo("Python", <<"python", "python3", "py">>, "python:3.12-slim")
          [] a = "&Go" -> RuntimeInfo("Go", <<"go", "golang">>, "golang:1.25-alpine")
          [] OTHER -> RuntimeInfo("MyLang", <<"ml", "mylang">>, "mylang:latest")]
\* var DefaultRuntimes: per canonical name the address of its RuntimeInfo.
DefaultRuntimes == [l \in {"Python", "Go"} |-> IF l = "Python" THEN "&Python" ELSE "&Go"]
\* aliasMap, as init builds it: the RuntimeInfo of DefaultRuntimes that has
\* this lower-case name as its Language or among its Aliases, or NilInfo.
aliasMap(lower) ==
    LET named == { a \in { DefaultRuntimes[l] : l \in DOMAIN DefaultRuntimes } :
                      lower \in {ToLower(InitialHeap[a].Language)}
                                \cup { ToLower(x) : x \in Range(InitialHeap[a].Aliases) } }
    IN  IF named = {} THEN NilInfo ELSE CHOOSE a \in named : TRUE

\* langdetect.GetRuntimeInfo(language) of the global catalog: the *RuntimeInfo,
\* or NilInfo for (nil, false).
GetRuntimeInfoGlobal(language) ==
    IF language \in DOMAIN DefaultRuntimes THEN DefaultRuntimes[language]
    ELSE aliasMap(ToLower(language))

\* What a caller sees through a *RuntimeInfo when the values are those of h.
Deref(h, a) == IF a = NilInfo THEN NilInfo ELSE h[a]

\* r.Register(name, info) on the maps rs and al: the maps afterwards.
RegisterInto(rs, al, name, a) ==
    [runtimes |-> [rs EXCEPT ![name] = a],
     aliases |-> [l \in DOMAIN al |->
                    IF l = ToLower(name) \/ l \in { ToLower(x) : x \in Range(heap[a].Aliases) }
                    THEN a ELSE al[l]]]

\* NewRuntimeRegistry(): r.Register(name, info) for every entry of
\* DefaultRuntimes, with the info of the entry.
NewRuntimeRegistry ==
    LET empty == [runtimes |-> [l \in Languages |-> NilInfo],
                  aliases |-> [l \in { ToLower(x) : x \in Languages } \cup {"go", "python3", "mylang"} |-> NilInfo]]
        first == RegisterInto(empty.runtimes, empty.aliases, "Python", DefaultRuntimes["Python"])
        both == RegisterInto(first.runtimes, first.aliases, "Go", DefaultRuntimes["Go"])
    IN  /\ heap = InitialHeap
        /\ runtimes = both.runtimes
        /\ aliases = both.aliases
        /\ held = {"&MyLang"}
        /\ info = [p \in Procs |-> NilInfo]

\* r.Register(name, info) by process p, with a *RuntimeInfo the caller holds.
RuntimeRegister(p, name, a) ==
    /\ Idle(p) /\ a \in held
    /\ op' = [op EXCEPT ![p] = "register"]
    /\ runtimes' = RegisterInto(runtimes, aliases, name, a).runtimes
    /\ aliases' = RegisterInto(runtimes, aliases, name, a).aliases
    /\ pc' = [pc EXCEPT ![p] = "done"]
    /\ UNCHANGED <<nonRuntimeVars, heap, held, info>>

\* r.Get(language) by process p: the caller holds what it returns.
RuntimeGet(p, language) ==
    /\ Idle(p)
    /\ op' = [op EXCEPT ![p] = "get"]
    /\ LET a == IF runtimes[language] # NilInfo THEN runtimes[language]
                ELSE aliases[ToLower(language)]
       IN  /\ info' = [info EXCEPT ![p] = a]
           /\ held' = held \cup ({a} \ {NilInfo})
    /\ pc' = [pc EXCEPT ![p] = "done"]
    /\ UNCHANGED <<nonRuntimeVars, heap, runtimes, aliases>>

\* A caller writes to a field of a RuntimeInfo it holds: info.DockerImage = image.
SetDockerImage(p, a, image) ==
    /\ Idle(p) /\ a \in held
    /\ op' = [op EXCEPT ![p] = "write"]
    /\ heap' = [heap EXCEPT ![a].DockerImage = image]
    /\ pc' = [pc EXCEPT ![p] = "done"]
    /\ UNCHANGED <<nonRuntimeVars, runtimes, aliases, held, info>>

\* The packages no call is made on.
Unused ==
    /\ MergeInit({NilExecutionOptions}, {DefaultExecutionOptions}) /\ NewInstances
    /\ NewProvider /\ NewRuntimeRegistry

\* ------------------------------------------------------ Registry and factory
\* The names providers are registered under, and the config values of Get.
ProviderNames == {"docker", "nsjail"}
ProviderConfigs == {"nil", "cfg"}
\* No provider: a nil provider.Provider, a missing key of Registry.providers.
NoProvider == 0
NoArg == [name |-> "", config |-> "", registered |-> FALSE]

\* NewRegistry(): no constructors and no providers.
NewRegistry ==
    /\ constructors = {}
    /\ providers = [n \in ProviderNames |-> NoProvider]
    /\ built = <<>>
    /\ closedProviders = EmptyBag
    /\ resets = 0
    /\ instances = {}
    /\ arg = [p \in Procs |-> NoArg]
    /\ got = [p \in Procs |-> NoProvider]
    /\ at = [p \in Procs |-> 0]
    /\ listed = [p \in Procs |-> {}]

\* Registry.IsRegistered(name)
IsRegistered(name) == name \in constructors
AvailableCached == { n \in ProviderNames : providers[n] # NoProvider }
\* Registry.Available(): the registered names.
Available == constructors
CachedNever(name) == NoProvider
\* Get's look in the cache: r.providers[name], NoProvider when there is none.
Cached(name) == providers[name]
StoredAlways(name, id, ok) == [providers EXCEPT ![name] = id]
\* Get's store into the cache: only a provider the constructor returned
\* without an error is stored.
Stored(name, id, ok) == IF ok THEN [providers EXCEPT ![name] = id] ELSE providers

\* Registry.Get(name, config) for the call p, the whole of it under r.mu: the
\* provider and the error it returns and the registry it leaves.  ok is
\* whether the constructor, if invoked, returns a provider.
Get(p, name, cfg, ok) ==
    IF Cached(name) # NoProvider
    THEN [provider |-> Cached(name), err |-> Nil, built |-> built, providers |-> providers]
    ELSE IF ~IsRegistered(name)
    THEN [provider |-> NoProvider, err |-> RawError(ErrNotRegistered),
          built |-> built, providers |-> providers]
    ELSE LET b == Append(built, [name |-> name, config |-> cfg, ok |-> ok,
                                 gen |-> resets, by |-> p])
         IN  [provider |-> IF ok THEN Len(b) ELSE NoProvider,
              err |-> IF ok THEN Nil ELSE RawError(ErrCreateProvider),
              built |-> b, providers |-> Stored(name, Len(b), ok)]

\* Registry.Register(name, constructor) by process p.
Register(p, name) ==
    /\ Idle(p)
    /\ op' = [op EXCEPT ![p] = "register"]
    /\ arg' = [arg EXCEPT ![p] = [NoArg EXCEPT !.name = name]]
    /\ constructors' = constructors \cup {name}
    /\ ret' = [ret EXCEPT ![p] = Nil]
    /\ pc' = [pc EXCEPT ![p] = "done"]
    /\ UNCHANGED <<nonRegistryVars, providers, built, closedProviders, resets, instances,
                   got, at, listed>>

UnregisterKeepsCached(p, name) ==
    /\ Idle(p)
    /\ op' = [op EXCEPT ![p] = "unregister"]
    /\ arg' = [arg EXCEPT ![p] = [NoArg EXCEPT !.name = name]]
    /\ constructors' = constructors \ {name}
    /\ closedProviders' = IF providers[name] # NoProvider
                          THEN closedProviders (+) SetToBag({providers[name]})
                          ELSE closedProviders
    /\ resets' = resets + 1
    /\ ret' = [ret EXCEPT ![p] = Nil]
    /\ pc' = [pc EXCEPT ![p] = "done"]
    /\ UNCHANGED <<nonRegistryVars, providers, built, instances, got, at, listed>>

\* Registry.Unregister(name) by process p: the constructor is removed and a
\* cached provider is closed and removed.
Unregister(p, name) ==
    /\ Idle(p)
    /\ op' = [op EXCEPT ![p] = "unregister"]
    /\ arg' = [arg EXCEPT ![p] = [NoArg EXCEPT !.name = name]]
    /\ constructors' = constructors \ {name}
    /\ closedProviders' = IF providers[name] # NoProvider
                          THEN closedProviders (+) SetToBag({providers[name]})
                          ELSE closedProviders
    /\ providers' = [providers EXCEPT ![name] = NoProvider]
    /\ resets' = resets + 1
    /\ ret' = [ret EXCEPT ![p] = Nil]
    /\ pc' = [pc EXCEPT ![p] = "done"]
    /\ UNCHANGED <<nonRegistryVars, built, instances, got, at, listed>>

\* Registry.Get(name, config) by process p.
RegistryGet(p, name, cfg, ok) ==
    /\ Idle(p)
    /\ op' = [op EXCEPT ![p] = "get"]
    /\ arg' = [arg EXCEPT ![p] = [name |-> name, config |-> cfg,
                                  registered |-> IsRegistered(name)]]
    /\ LET g == Get(p, name, cfg, ok)
       IN  /\ built' = g.built
           /\ providers' = g.providers
           /\ got' = [got EXCEPT ![p] = g.provider]
           /\ ret' = [ret EXCEPT ![p] = g.err]
    /\ at' = [at EXCEPT ![p] = resets]
    /\ pc' = [pc EXCEPT ![p] = "done"]
    /\ UNCHANGED <<nonRegistryVars, constructors, closedProviders, resets, instances, listed>>

\* Registry.Close() by process p: every cached provider is closed and
\* removed; the error of the last Close that failed is returned.
RegistryClose(p, ok) ==
    /\ Idle(p)
    /\ op' = [op EXCEPT ![p] = "close"]
    /\ closedProviders' =
           closedProviders (+) SetToBag({ providers[n] : n \in ProviderNames } \ {NoProvider})
    /\ providers' = [n \in ProviderNames |-> NoProvider]
    /\ resets' = resets + 1
    /\ ret' = [ret EXCEPT ![p] = IF ok \/ \A n \in ProviderNames : providers[n] = NoProvider
                                 THEN Nil ELSE RawError(ErrProviderClose)]
    /\ pc' = [pc EXCEPT ![p] = "done"]
    /\ UNCHANGED <<nonRegistryVars, constructors, built, instances, arg, got, at, listed>>

\* SandboxFactory.CreateSandbox(ctx, providerName, config, opts) by process
\* p, its first step: f.registry.IsRegistered(providerName).
CreateSandboxIsRegistered(p, name, cfg) ==
    /\ Idle(p)
    /\ op' = [op EXCEPT ![p] = "createSandbox"]
    /\ arg' = [arg EXCEPT ![p] = [name |-> name, config |-> cfg,
                                  registered |-> IsRegistered(name)]]
    /\ pc' = [pc EXCEPT ![p] = IF IsRegistered(name) THEN "get" ELSE "available"]
    /\ UNCHANGED <<nonRegistryVars, ret, constructors, providers, built, closedProviders,
                   resets, instances, got, at, listed>>

\* The name is not registered: f.registry.Available() and the error whose
\* message lists what it answered.
CreateSandboxAvailable(p) ==
    /\ pc[p] = "available"
    /\ listed' = [listed EXCEPT ![p] = Available]
    /\ ret' = [ret EXCEPT ![p] = RawError(ErrProviderNotFound)]
    /\ pc' = [pc EXCEPT ![p] = "done"]
    /\ UNCHANGED <<nonRegistryVars, op, constructors, providers, built, closedProviders,
                   resets, instances, arg, got, at>>

\* The name is registered: f.registry.Get(providerName, config).
CreateSandboxGet(p, ok) ==
    /\ pc[p] = "get"
    /\ LET g == Get(p, arg[p].name, arg[p].config, ok)
       IN  /\ built' = g.built
           /\ providers' = g.providers
           /\ got' = [got EXCEPT ![p] = g.provider]
           /\ IF g.err # Nil
              THEN /\ ret' = [ret EXCEPT ![p] = RawError(ErrGetProvider)]
                   /\ pc' = [pc EXCEPT ![p] = "done"]
              ELSE /\ pc' = [pc EXCEPT ![p] = "create"]
                   /\ UNCHANGED ret
    /\ at' = [at EXCEPT ![p] = resets]
    /\ UNCHANGED <<nonRegistryVars, op, constructors, closedProviders, resets, instances,
                   arg, listed>>

\* p.Create(ctx, opts) on the provider Get returned; ok is whether it
\* returns an instance.
CreateSandboxCreate(p, ok) ==
    /\ pc[p] = "create"
    /\ instances' = IF ok THEN instances \cup {[provider |-> got[p], by |-> p]} ELSE instances
    /\ ret' = [ret EXCEPT ![p] = IF ok THEN Nil ELSE RawError(ErrCreateSandbox)]
    /\ pc' = [pc EXCEPT ![p] = "done"]
    /\ UNCHANGED <<nonRegistryVars, op, constructors, providers, built, closedProviders,
                   resets, arg, got, at, listed>>

\* ------------------------------------------------------------ specification
\* DefaultConfig(): auto-detect on, no default language, no event handler.
DefaultConfig == [autoDetect |-> TRUE, defaultLanguage |-> "", eventHandler |-> FALSE]
\* The configurations an Option can produce (an Option is any func(*Config)).
Configs == [autoDetect : BOOLEAN, defaultLanguage : DefaultLangs, eventHandler : BOOLEAN]

\* createSandbox: the state it returns the sandbox in.  The instance is
\* running, the bus holds the global handler when one is configured, and
\* sandbox.created has been emitted.
createSandbox(cfg) ==
    /\ config = cfg
    /\ stopped = FALSE
    /\ instStatus = StatusRunning
    /\ subscribers = [t \in EventTypes |-> <<>>]
    /\ allSubs = IF cfg.eventHandler THEN <<[id |-> 0, handler |-> GlobalHandler]>> ELSE <<>>
    /\ nextID = Len(allSubs)
    /\ emitted = [s \in Sources |-> IF s = 0 THEN <<EventSandboxCreated>> ELSE <<>>]
    /\ tasks = { [id |-> s.id, handler |-> s.handler, src |-> 0, idx |-> 1] : s \in Range(allSubs) }
    /\ handled = {}
    /\ op = [p \in Procs |-> ""]
    /\ pc = [p \in Procs |-> "idle"]
    /\ optLang = [p \in Procs |-> ""]
    /\ det = [p \in Procs |-> ""]
    /\ lang = [p \in Procs |-> ""]
    /\ ret = [p \in Procs |-> NoRet]
    /\ goret = [p \in Procs |-> NoRet]
    /\ observed = [p \in Procs |-> FALSE]
    /\ bcalls = [p \in Procs |-> <<>>]
    /\ bres = [p \in Procs |-> ""]
    /\ chanBuf = [p \in Procs |-> <<>>]
    /\ chanClosed = [p \in Procs |-> FALSE]
    /\ sent = [p \in Procs |-> 0]
    /\ script = [p \in Procs |-> <<>>]
    /\ issued = [p \in Procs |-> <<>>]
    /\ hlog = [p \in Procs |-> <<>>]
    /\ unsubscribers = [p \in Procs |-> <<>>]
    /\ pending = [p \in Procs |-> <<>>]
    /\ closure = [p \in Procs |-> 0]
    /\ calls = [p \in Procs |-> <<>>]
    /\ seen = [p \in Procs |-> NotSeen]
    /\ removed = {}
    /\ counted = [p \in Procs |-> 0]

\* The clock at 0, and the context and the timeout of each call: those of the
\* first n calls are drawn from the given sets, the others are
\* context.Background() and the timeout of DefaultExecuteConfig().
TimeInit(n, deadlines, timeouts) ==
    /\ now = 0
    /\ ctxDeadline \in [Procs -> deadlines \cup {NoDeadline}]
    /\ execTimeout \in [Procs -> timeouts \cup {DefaultTimeout}]
    /\ \A p \in Procs :
          IF p \in 1..n
          THEN ctxDeadline[p] \in deadlines /\ execTimeout[p] \in timeouts
          ELSE ctxDeadline[p] = NoDeadline /\ execTimeout[p] = DefaultTimeout
    /\ run = [p \in Procs |-> NoRun]

DefaultCalls == TimeInit(0, {}, {})

\* The steps of Stop, Status and RunCommand.
LifecycleStep(p) ==
    \/ StopEnter(p)
    \/ \E ok \in BOOLEAN : StopBackend(p, ok)
    \/ StopEmit(p)
    \/ StatusEnter(p)
    \/ StatusBackend(p)
    \/ RunCommandEnter(p)
    \/ \E ok \in BOOLEAN : RunCommandBackend(p, ok)

\* The steps of Execute, for calls that give a language of langs.
ExecuteStep(p, langs) ==
    \/ \E l \in langs, d \in DetectResults : ExecuteEnter(p, l, d)
    \/ ExecuteEmitStarted(p)
    \/ \E ok \in BOOLEAN : ExecuteBackend(p, ok)
    \/ ExecuteEmitEnd(p)

\* The steps of ExecuteAsync, its goroutine and the receiver of its channel.
AsyncStep(p, langs) ==
    \/ \E l \in langs, d \in DetectResults : AsyncEnter(p, l, d)
    \/ GoExecute(p)
    \/ AsyncSend(p)
    \/ AsyncClose(p)
    \/ Receive(p)

\* The steps of ExecuteStream.
StreamStep(p, langs) ==
    \/ \E l \in langs, d \in DetectResults : StreamEnter(p, l, d)
    \/ StreamEmitStarted(p)
    \/ \E s \in Scripts : StreamBackend(p, s)
    \/ StreamEvent(p)
    \/ \E ok \in BOOLEAN : StreamReturn(p, ok)

\* The calls that name their language (WithLanguage).
GivenLangs == OptLangs \ {""}

\* Spec: a sandbox created with the default configuration, and NumCalls calls
\* of any method on it, the executing ones naming their language.
Init == createSandbox(DefaultConfig) /\ DefaultCalls /\ NewMultiStreamWriter /\ NewRegistry /\ New /\ Unused

Next ==
    \E p \in 1..NumCalls :
        \/ LifecycleStep(p)
        \/ ExecuteStep(p, GivenLangs)
        \/ AsyncStep(p, GivenLangs)
        \/ StreamStep(p, GivenLangs)

Spec == Init /\ [][Next]_vars

\* SpecLifecycle: the same sandbox under NumLifecycleCalls calls of Stop,
\* Status and RunCommand.
NextLifecycle == \E p \in 1..NumLifecycleCalls : LifecycleStep(p)

SpecLifecycle == Init /\ [][NextLifecycle]_vars

\* SpecConfig: a sandbox of any language configuration under NumConfigCalls
\* calls of Execute and ExecuteStream, with or without a language.
InitConfig ==
    /\ DefaultCalls /\ NewMultiStreamWriter /\ NewRegistry /\ New /\ Unused
    /\ \E cfg \in Configs : ~cfg.eventHandler /\ createSandbox(cfg)

NextConfig ==
    \E p \in 1..NumConfigCalls : ExecuteStep(p, OptLangs) \/ StreamStep(p, OptLangs)

SpecConfig == InitConfig /\ [][NextConfig]_vars

\* SpecEvents: a sandbox with or without a global event handler, under
\* NumEventCalls calls of Execute, MaxSubs calls of Subscribe, and the handler
\* goroutines that Bus.Emit spawns.
InitEvents ==
    /\ DefaultCalls /\ NewMultiStreamWriter /\ NewRegistry /\ New /\ Unused
    /\ \E cfg \in Configs : cfg.autoDetect /\ cfg.defaultLanguage = "" /\ createSandbox(cfg)

NextEvents ==
    \/ \E p \in 1..NumEventCalls : ExecuteStep(p, GivenLangs)
    \/ \E type \in EventTypes, h \in UserHandlers : Subscribe(type, h)
    \/ \E t \in tasks : HandlerRun(t)

SpecEvents == InitEvents /\ [][NextEvents]_vars

\* SpecBus: NumBusCalls calls on the Bus of a sandbox, of any of its methods,
\* with the goroutines of Emit running their handlers when they get to.
BusStep(p) ==
    \/ \E type \in BusTypes, h \in UserHandlers : BusSubscribe(p, type, h)
    \/ \E h \in UserHandlers : BusSubscribeAll(p, h)
    \/ \E h \in UserHandlers : SubscribeMultipleBegin(p, MultipleTypes, h)
    \/ SubscribeMultipleStep(p)
    \/ \E q \in Procs : UnsubscribeCall(p, q)
    \/ UnsubscribeStep(p)
    \/ Clear(p)
    \/ SubscriberCountCall(p)
    \/ \E type \in BusTypes : BusEmit(p, type)
    \/ \E type \in BusTypes : EmitSyncBegin(p, type)
    \/ EmitSyncHandler(p)
    \/ EmitSyncNext(p)
    \/ EmitSyncReturn(p)

InitBus == createSandbox(DefaultConfig) /\ DefaultCalls /\ NewMultiStreamWriter /\ NewRegistry /\ New /\ Unused

NextBus ==
    \/ \E p \in 1..NumBusCalls : BusStep(p)
    \/ \E t \in tasks : HandlerRun(t)

SpecBus == InitBus /\ [][NextBus]_vars

\* SpecReentrant: NumReentrantCalls calls of Subscribe, SubscribeAll, Clear,
\* Emit and EmitSync on the Bus of a sandbox, with handlers that call Clear on
\* that Bus.  Every call that has started goes on when it can, and so does
\* every goroutine.
ReentrantStep(p) ==
    \/ \E type \in BusTypes : BusSubscribe(p, type, ClearingHandler)
    \/ BusSubscribeAll(p, ClearingHandler)
    \/ Clear(p)
    \/ \E type \in BusTypes : BusEmit(p, type)
    \/ \E type \in BusTypes : EmitSyncBegin(p, type)
    \/ EmitSyncHandlerCalls(p)
    \/ EmitSyncNext(p)
    \/ EmitSyncReturn(p)

NextReentrant ==
    \/ \E p \in 1..NumReentrantCalls : ReentrantStep(p)
    \/ \E t \in tasks : HandlerRunClear(t)

SpecReentrant ==
    /\ InitBus /\ [][NextReentrant]_vars
    /\ \A p \in 1..NumReentrantCalls : WF_vars(ReentrantStep(p))
    /\ WF_vars(\E t \in tasks : HandlerRunClear(t))

\* SpecPipe: NumPipeCalls calls of Write, WriteEvent, OnEvent and Close on a
\* stream of a MultiStreamWriter and of Close on the writer itself, with its
\* two forward goroutines.  The two streams are alike, so the calls made on a
\* stream directly are made on stdout; stderr is closed through the writer.
PipeStep(p, streams) ==
    \/ \E s \in streams : WriteEnter(p, s)
    \/ WriteCallsWriteEvent(p)
    \/ \E s \in streams : WriteEventEnter(p, s)
    \/ WriteEventSend(p)
    \/ \E s \in streams, h \in StreamHandlers : OnEvent(p, s, h)
    \/ \E h \in StreamHandlers : MultiOnEventStdout(p, h)
    \/ MultiOnEventStderr(p)
    \/ \E s \in streams : StreamClose(p, s)
    \/ MultiCloseEnter(p)
    \/ MultiCloseStream(p)
    \/ MultiCloseEvents(p)

InitPipe == createSandbox(DefaultConfig) /\ DefaultCalls /\ NewMultiStreamWriter /\ NewRegistry /\ New /\ Unused

NextPipe ==
    \/ \E p \in 1..NumPipeCalls : PipeStep(p, {StreamStdout})
    \/ \E s \in Streams : ForwardRange(s) \/ ForwardSend(s)

SpecPipe == InitPipe /\ [][NextPipe]_vars

\* SpecForward: NumForwardCalls calls of Write on the two streams of a
\* MultiStreamWriter and of its Close, with the two forward goroutines, which
\* the Go scheduler runs whenever they can take a step.
ForwardStep(p) ==
    \/ \E s \in Streams : WriteEnter(p, s)
    \/ WriteCallsWriteEvent(p)
    \/ WriteEventSend(p)
    \/ MultiCloseEnter(p)
    \/ MultiCloseStream(p)
    \/ MultiCloseEvents(p)

Forward(s) == ForwardRange(s) \/ ForwardSend(s)

NextForward ==
    \/ \E p \in 1..NumForwardCalls : ForwardStep(p)
    \/ \E s \in Streams : Forward(s)

SpecForward == InitPipe /\ [][NextForward]_vars /\ \A s \in Streams : WF_vars(Forward(s))

\* SpecDeadline: NumDeadlineCalls calls of Execute on a sandbox whose Instance
\* is a docker Instance, under any caller deadline and any execution timeout,
\* while time passes.
CallerDeadlines == {NoDeadline} \cup { Deadline(t) : t \in 1..MaxTime }
Timeouts == 0..MaxTimeout

InitDeadline ==
    /\ createSandbox(DefaultConfig) /\ NewMultiStreamWriter /\ NewRegistry /\ New /\ Unused
    /\ TimeInit(NumDeadlineCalls, CallerDeadlines, Timeouts)

NextDeadline ==
    \/ Tick
    \/ \E p \in 1..NumDeadlineCalls :
          \/ \E l \in GivenLangs, d \in DetectResults : ExecuteEnter(p, l, d)
          \/ ExecuteEmitStarted(p)
          \/ DockerExecuteBegin(p)
          \/ \E ok \in BOOLEAN : DockerExecuteEnd(p, ok)
          \/ DockerExecuteTimeout(p)
          \/ DockerExecuteCancel(p)
          \/ ExecuteEmitEnd(p)

SpecDeadline == InitDeadline /\ [][NextDeadline]_vars

\* SpecRegistry: NumRegistryCalls calls on one Registry and the
\* SandboxFactory over it, with any names and config values.
RegistryStep(p) ==
    \/ \E n \in ProviderNames : Register(p, n)
    \/ \E n \in ProviderNames : Unregister(p, n)
    \/ \E n \in ProviderNames, c \in ProviderConfigs, ok \in BOOLEAN : RegistryGet(p, n, c, ok)
    \/ \E ok \in BOOLEAN : RegistryClose(p, ok)
    \/ \E n \in ProviderNames, c \in ProviderConfigs : CreateSandboxIsRegistered(p, n, c)
    \/ CreateSandboxAvailable(p)
    \/ \E ok \in BOOLEAN : CreateSandboxGet(p, ok)
    \/ \E ok \in BOOLEAN : CreateSandboxCreate(p, ok)

InitRegistry ==
    createSandbox(DefaultConfig) /\ DefaultCalls /\ NewMultiStreamWriter /\ NewRegistry /\ New /\ Unused

NextRegistry == \E p \in 1..NumRegistryCalls : RegistryStep(p)

SpecRegistry == InitRegistry /\ [][NextRegistry]_vars

\* SpecDetect: NumDetectCalls calls of Detect with the same code and the
\* same options, for any code, any options and any answers of go-enry.
InitDetect ==
    /\ createSandbox(DefaultConfig) /\ DefaultCalls /\ NewMultiStreamWriter /\ NewRegistry
    /\ Unused
    /\ NewDetector(DetectOptions, {MainPy}, Enrys, Codes)

NextDetect == \E p \in 1..NumDetectCalls : \E order \in Orders : DetectCall(p, order)

SpecDetect == InitDetect /\ [][NextDetect]_vars

\* SpecFilename: NumFilenameCalls calls of AddMapping and DetectFromFilename
\* on one Detector, for any filename and any answers of go-enry for it.
InitFilename ==
    /\ createSandbox(DefaultConfig) /\ DefaultCalls /\ NewMultiStreamWriter /\ NewRegistry
    /\ Unused
    /\ NewDetector({NilOptions}, Filenames,
                   { e \in Enrys : e.byShebang = NoAnswer /\ e.languages = <<>> }, {NoCode})

NextFilename ==
    \E p \in 1..NumFilenameCalls :
        \/ DetectFromFilenameCall(p)
        \/ \E e \in Exts, l \in EnryLangs : AddMapping(p, e, l)

SpecFilename == InitFilename /\ [][NextFilename]_vars

\* SpecMerge: Merge of any receiver onto any defaults.
InitMerge ==
    /\ createSandbox(DefaultConfig) /\ DefaultCalls /\ NewMultiStreamWriter /\ NewRegistry
    /\ New /\ NewInstances /\ NewProvider /\ NewRuntimeRegistry
    /\ MergeInit(ReceiverOptions, DefaultOptions)

NextMerge == \E p \in 1..NumMergeCalls : MergeCall(p)

SpecMerge == InitMerge /\ [][NextMerge]_vars

\* SpecCompile: NumCompileCalls calls of Execute on backend Instances, with
\* any language and any outcome of the commands.
InitCompile ==
    /\ createSandbox(DefaultConfig) /\ DefaultCalls /\ NewMultiStreamWriter /\ NewRegistry
    /\ New /\ Unused

NextCompile ==
    \E p \in 1..NumCompileCalls :
        \/ \E b \in Backends, l \in ExecLangs, wrote \in BOOLEAN : BackendExecuteBegin(p, b, l, wrote)
        \/ \E ran \in BOOLEAN, e \in 0..MaxExitCode : BackendCompile(p, ran, e)
        \/ \E ran \in BOOLEAN, e \in 0..MaxExitCode : BackendRun(p, ran, e)

SpecCompile == InitCompile /\ [][NextCompile]_vars

\* SpecNsjail: NumNsjailCalls calls of Create and Close on the nsjail Provider,
\* of Stop on its instances, and of Close and Unregister on the registry that
\* caches it.  Every call that has started goes on when it can.
NsjailStep(p) ==
    \/ \E made \in BOOLEAN : ProviderCreate(p, made)
    \/ ProviderCreateStore(p)
    \/ \E i \in Procs : InstanceStop(p, i)
    \/ InstanceStopRemove(p)
    \/ \E how \in CloseOps : ProviderClose(p, how)
    \/ \E i \in Procs : ProviderCloseRange(p, i)
    \/ ProviderCloseReturn(p)

InitNsjail ==
    /\ createSandbox(DefaultConfig) /\ DefaultCalls /\ NewMultiStreamWriter /\ NewRegistry
    /\ New /\ Unused

NextNsjail == NanoTick \/ \E p \in 1..NumNsjailCalls : NsjailStep(p)

SpecNsjail ==
    /\ InitNsjail /\ [][NextNsjail]_vars
    /\ \A p \in 1..NumNsjailCalls : WF_vars(NsjailStep(p))

\* SpecIDs: NumCreateCalls calls of Create on the nsjail Provider while the
\* clock advances, and MaxMockInstances mock instances built one after the
\* other.
NextIDs ==
    \/ NanoTick
    \/ \E p \in 1..NumCreateCalls :
          (\E made \in BOOLEAN : ProviderCreate(p, made)) \/ ProviderCreateStore(p)
    \/ NewMockInstance

SpecIDs == InitNsjail /\ [][NextIDs]_vars

\* SpecRuntimes: NumRuntimeCalls calls of Register and Get on a RuntimeRegistry
\* and writes to the RuntimeInfo values the callers hold, one after the other.
NextRuntimes ==
    \E p \in 1..NumRuntimeCalls :
        \/ \E name \in {"Python", "MyLang"}, a \in Addresses : RuntimeRegister(p, name, a)
        \/ \E language \in Languages : RuntimeGet(p, language)
        \/ \E a \in Addresses, image \in Images : SetDockerImage(p, a, image)

SpecRuntimes == Init /\ [][NextRuntimes]_vars

\* ------------------------------------------------------------------ claims
\* The methods that refuse to run on a stopped sandbox.
GuardedOps == {"execute", "executeAsync", "executeStream", "runCommand"}
\* Stop has been called: some call of Stop has entered its critical section.
StopCalled == \E q \in Procs : op[q] = "stop"

\* C1: once Stop has been called, every Execute, ExecuteAsync, ExecuteStream
\* and RunCommand call that starts afterwards returns at once, and returns
\* ErrSandboxStopped wrapped in a SandboxError that names the operation.
StoppedCallsFail ==
    [][\A p \in Procs :
          (StopCalled /\ pc[p] = "idle" /\ op'[p] \in GuardedOps) =>
              /\ pc'[p] = "done"
              /\ ret'[p] = NewError(op'[p], ErrSandboxStopped)
              /\ ErrorsIs(ret'[p], ErrSandboxStopped)
              /\ bcalls'[p] = <<>>]_vars

\* A call of one of these methods has been refused after a Stop.
StoppedCallsFailWitness ==
    \E p \in Procs :
        /\ StopCalled
        /\ op[p] \in GuardedOps
        /\ ret[p] = NewError(op[p], ErrSandboxStopped)

\* C3: a call that has read the stopped flag as set makes no backend call, and
\* every backend Stop is invoked with the flag already set.
NoBackendCallAfterStopped ==
    \A p \in Procs :
        /\ observed[p] => bcalls[p] = <<>>
        /\ \A i \in 1..Len(bcalls[p]) : bcalls[p][i].method = "Stop" => bcalls[p][i].flag

\* The backend Stop has been invoked, and a later call has read the flag as set
\* and returned.
NoBackendCallAfterStoppedWitness ==
    \E p, q \in Procs :
        /\ \E i \in 1..Len(bcalls[q]) : bcalls[q][i].method = "Stop"
        /\ observed[p] /\ pc[p] = "done" /\ op[p] \in GuardedOps \cup {"status"}

\* C9: an ExecuteAsync call that returned a channel sends exactly one result on
\* it, with Error set exactly when the pipeline failed, and then closes it; the
\* goroutine is never blocked at its send.
AsyncSendsOnce ==
    \A p \in Procs :
        (op[p] = "executeAsync" /\ ret[p] = Value("chan")) =>
            /\ sent[p] <= 1
            /\ Len(chanBuf[p]) <= sent[p]
            /\ pc[p] = "send" => Len(chanBuf[p]) < ChanCap
            /\ pc[p] \in {"close", "done"} => sent[p] = 1
            /\ chanClosed[p] <=> pc[p] = "done"
            /\ \A i \in 1..Len(chanBuf[p]) :
                  chanBuf[p][i] =
                      IF goret[p].kind = "SandboxError"
                      THEN ResultWithError(goret[p]) ELSE goret[p]

\* A failed pipeline has sent its result with Error set and closed the
\* channel, and nobody has received.
AsyncSendsOnceWitness ==
    \E p \in Procs :
        /\ op[p] = "executeAsync" /\ chanClosed[p] /\ sent[p] = 1
        /\ Len(chanBuf[p]) = 1 /\ chanBuf[p][1].kind = "resultWithError"

\* C10: the stream handler receives the start event before any event of the
\* backend, and then the backend's events in the order the backend issued them.
StreamHandlerOrder ==
    \A p \in Procs :
        \/ hlog[p] = <<>> /\ issued[p] = <<>>
        \/ hlog[p] = <<StreamStart>> \o issued[p]

\* The handler has received start, stdout, complete and the call has returned.
StreamHandlerOrderWitness ==
    \E p \in Procs :
        pc[p] = "done" /\ hlog[p] = <<StreamStart, StreamStdout, StreamComplete>>

\* The calls of Stop, and among them those that went on to the backend.
StopCalls == { p \in Procs : op[p] = "stop" }
FirstStops == { p \in StopCalls : pc[p] # "done" \/ bcalls[p] # <<>> }
\* The events one source has emitted that are of the given types.
EmittedOf(src, types) == SelectSeq(emitted[src], LAMBDA e : e \in types)

\* C2: however many calls of Stop there are, and however they interleave, one
\* of them invokes the backend Stop, once, and every other one returns nil
\* without a backend call.
StopIdempotent ==
    StopCalls # {} =>
        /\ Cardinality(FirstStops) = 1
        /\ \A p \in FirstStops :
              /\ Len(bcalls[p]) <= 1
              /\ pc[p] # "backend" => Len(bcalls[p]) = 1 /\ bcalls[p][1].method = "Stop"
        /\ \A p \in StopCalls \ FirstStops : ret[p] = Nil /\ bcalls[p] = <<>>

\* Every call of the run was a Stop, the backend Stop failed, and the other
\* calls returned nil.
StopIdempotentWitness ==
    /\ \A p \in 1..NumLifecycleCalls : op[p] = "stop" /\ pc[p] = "done"
    /\ \E p \in FirstStops : bres[p] = "err"

\* A Stop call has returned nil.
StopReturnedNil == \E q \in Procs : op[q] = "stop" /\ pc[q] = "done" /\ ret[q] = Nil

\* C4 as amended: a Status call that starts after a Stop call has returned nil
\* returns stopped, without consulting the backend.
StatusAfterStop ==
    [][\A p \in Procs :
          (StopReturnedNil /\ pc[p] = "idle" /\ op'[p] = "status") =>
              /\ pc'[p] = "done"
              /\ ret'[p] = Value(StatusStopped)
              /\ bcalls'[p] = <<>>]_vars

\* A Status call has returned stopped by the flag alone, after a Stop that
\* returned nil although the backend is still running.
StatusAfterStopWitness ==
    \E p \in Procs :
        /\ StopReturnedNil
        /\ instStatus = StatusRunning
        /\ op[p] = "status" /\ observed[p] /\ ret[p] = Value(StatusStopped)

\* C4 as stated: once a Stop call has returned nil, no Status call returns
\* running, whenever that Status call started.
NoRunningAfterStop ==
    [][\A p \in Procs :
          (StopReturnedNil /\ op[p] = "status" /\ pc[p] # "done" /\ pc'[p] = "done") =>
              ret'[p] # Value(StatusRunning)]_vars

\* C7: sandbox.created is emitted once, by createSandbox; over all calls of
\* Stop at most one terminal lifecycle event is emitted, by the call that
\* invoked the backend when it returns: sandbox.stopped when the backend Stop
\* succeeded, sandbox.error when it failed.
LifecycleEventsOnce ==
    /\ emitted[0] = <<EventSandboxCreated>>
    /\ \A p \in Procs :
          /\ EmittedOf(p, {EventSandboxCreated}) = <<>>
          /\ EmittedOf(p, {EventSandboxStopped, EventSandboxError}) =
                IF op[p] = "stop" /\ pc[p] = "done" /\ bcalls[p] # <<>>
                THEN IF bres[p] = "ok" THEN <<EventSandboxStopped>> ELSE <<EventSandboxError>>
                ELSE <<>>
    /\ Cardinality({ p \in Procs :
                       EmittedOf(p, {EventSandboxStopped, EventSandboxError}) # <<>> }) <= 1

\* Several calls of Stop have returned and sandbox.error is the one terminal
\* event.
LifecycleEventsOnceWitness ==
    /\ Cardinality({ p \in StopCalls : pc[p] = "done" }) >= 2
    /\ \E p \in StopCalls : emitted[p] = <<EventSandboxError>>

\* The calls that run the execution pipeline in their own name.
PipelineCalls == { p \in Procs : op[p] \in {"execute", "executeStream"} }
\* The languages the backend was called with by one call.
BackendLanguages(p) == { bcalls[p][i].language : i \in 1..Len(bcalls[p]) }
\* A call has failed with language-detection-failed, and made no backend call.
DetectionFailed(p) ==
    /\ pc[p] = "done"
    /\ ret[p] = NewError(op[p], ErrLanguageDetectionFailed)
    /\ bcalls[p] = <<>>
\* A call runs with this language: whenever it calls the backend it hands it
\* this language, and it does not fail with language-detection-failed.
RunsWith(p, l) ==
    /\ lang[p] = l
    /\ BackendLanguages(p) \subseteq {l}
    /\ ~ErrorsIs(ret[p], ErrLanguageDetectionFailed)
    /\ pc[p] = "done" => bcalls[p] # <<>>

\* C8 as amended: the language of the options if one is given; else, with
\* auto-detect on, the detector's answer if it has one, else the configured
\* default if there is one, else the call fails with
\* language-detection-failed and the backend is not called; with auto-detect
\* off and no language given, the call goes to the backend with the empty
\* language, whatever the configured default.
LanguageResolution ==
    \A p \in PipelineCalls :
        IF optLang[p] # "" THEN RunsWith(p, optLang[p])
        ELSE IF ~config.autoDetect THEN RunsWith(p, "")
        ELSE IF det[p] # "" THEN RunsWith(p, det[p])
        ELSE IF config.defaultLanguage # "" THEN RunsWith(p, config.defaultLanguage)
        ELSE DetectionFailed(p)

\* With auto-detect off and a default configured, a call without a language
\* has returned after calling the backend with the empty language.
LanguageResolutionWitness ==
    \E p \in PipelineCalls :
        /\ ~config.autoDetect /\ config.defaultLanguage # "" /\ optLang[p] = ""
        /\ pc[p] = "done" /\ BackendLanguages(p) = {""}

\* C8 as stated: the language of the options, else the detector's answer when
\* auto-detect is on, else the configured default, else the call fails; a call
\* that resolves no language fails and does not reach the backend.
LanguageResolutionStated ==
    \A p \in PipelineCalls :
        IF optLang[p] # "" THEN RunsWith(p, optLang[p])
        ELSE IF config.autoDetect /\ det[p] # "" THEN RunsWith(p, det[p])
        ELSE IF config.defaultLanguage # "" THEN RunsWith(p, config.defaultLanguage)
        ELSE DetectionFailed(p)

ExecutionEnds == {EventExecutionComplete, EventExecutionError}
\* The handler goroutines Bus.Emit has spawned so far, run or not.
Spawned == tasks \cup handled
\* The type of the event a handler goroutine carries.
TypeOf(t) == emitted[t.src][t.idx]
\* The handler goroutine carries an event of an Execute call.
OfExecute(t) == t.src \in Procs /\ op[t.src] = "execute"

\* C6 as amended: one Execute call hands execution.started to the bus strictly
\* before its execution.complete or execution.error, so a handler goroutine
\* for the end event is spawned only after those for the start event; the
\* order in which the goroutines then invoke a subscriber's handler is open.
StartedEmittedBeforeEnd ==
    \A p \in Procs :
        op[p] = "execute" =>
            /\ \/ emitted[p] = <<>> /\ pc[p] \in {"emitStart", "done"}
               \/ emitted[p] = <<EventExecutionStarted>> /\ pc[p] \in {"backend", "emitEnd"}
               \/ /\ Len(emitted[p]) = 2 /\ pc[p] = "done"
                  /\ emitted[p][1] = EventExecutionStarted
                  /\ emitted[p][2] \in ExecutionEnds
            /\ \A t \in Spawned :
                  (t.src = p /\ TypeOf(t) \in ExecutionEnds) => t.idx = 2

\* A subscriber's handler has been invoked with both events of one Execute call.
StartedEmittedBeforeEndWitness ==
    \E t, u \in handled :
        /\ OfExecute(t) /\ u.src = t.src /\ u.id = t.id
        /\ TypeOf(t) = EventExecutionStarted /\ TypeOf(u) \in ExecutionEnds

\* C6 as stated: a subscriber's handler is never invoked with the end event of
\* an Execute call while its invocation with the call's execution.started is
\* still to come.
HandlerSeesStartedFirst ==
    \A u \in handled :
        (OfExecute(u) /\ TypeOf(u) \in ExecutionEnds) =>
            ~\E t \in tasks :
                t.src = u.src /\ t.id = u.id /\ TypeOf(t) = EventExecutionStarted

\* C5: every Execute or ExecuteStream call that has emitted execution.started
\* and returned has emitted exactly one execution.complete or execution.error.
ExecutionEventsPaired ==
    \A p \in PipelineCalls :
        (pc[p] = "done" /\ EmittedOf(p, {EventExecutionStarted}) # <<>>) =>
            Len(EmittedOf(p, ExecutionEnds)) = 1

\* C13: every error of a backend call made by Execute, ExecuteStream,
\* RunCommand or Stop reaches the caller as a SandboxError that carries the
\* operation, the backend name and the instance ID, with the backend's error
\* as its cause.
BackendErrorsWrapped ==
    \A p \in Procs :
        (pc[p] = "done" /\ bres[p] = "err"
            /\ op[p] \in {"execute", "executeStream", "runCommand", "stop"}) =>
            ret[p] = NewError(op[p], ErrBackend)

\* ---------------------------------------------------------------- deadlines
\* The Execute calls whose backend run has begun.
Began(p) == op[p] = "execute" /\ pc[p] \in {"running", "emitEnd", "done"} /\ bcalls[p] # <<>>

\* The earlier of a caller deadline and the instant t.
Earlier(dl, t) == IF dl.set /\ dl.at <= t THEN dl.at ELSE t

\* C11 as stated: the context Execute hands to the backend has the deadline
\* min(caller deadline, start + execute-options timeout).
OrchestratorBoundsContext ==
    \A p \in Procs :
        Began(p) =>
            /\ run[p].ctx.set
            /\ run[p].ctx.at = Earlier(ctxDeadline[p], run[p].at + execTimeout[p])

\* C11: Execute hands the backend the caller's context as it is, together with
\* the execute-options timeout; the docker Instance runs the command under a
\* context whose deadline is min(caller deadline, start + timeout) when the
\* timeout is positive, and under the caller's context when it is zero.
BackendBoundsContext ==
    \A p \in Procs :
        Began(p) =>
            /\ run[p].ctx = ctxDeadline[p]
            /\ run[p].timeout = execTimeout[p]
            /\ IF execTimeout[p] > 0
               THEN /\ run[p].execCtx.set
                    /\ run[p].execCtx.at = Earlier(ctxDeadline[p], run[p].at + execTimeout[p])
               ELSE run[p].execCtx = ctxDeadline[p]

\* A run begun after time has passed, with a positive timeout, under a caller
\* deadline earlier than the end of the timeout.
BackendBoundsContextWitness ==
    \E p \in Procs :
        /\ Began(p) /\ run[p].at > 0 /\ execTimeout[p] > 0
        /\ ctxDeadline[p].set /\ ctxDeadline[p].at < run[p].at + execTimeout[p]
        /\ run[p].execCtx = ctxDeadline[p]

\* C12: an Execute call whose run went past its effective deadline returns an
\* error that is ErrExecutionTimeout.
TimeoutIsTyped ==
    \A p \in Procs :
        (op[p] = "execute" /\ pc[p] = "done" /\ bres[p] = "timeout") =>
            ErrorsIs(ret[p], ErrExecutionTimeout)

\* ------------------------------------------------------------------ the Bus
\* The Emit and EmitSync calls that have returned, the type of the event of an
\* emit, and the subscriptions that were registered for it when it began.
EmitCalls == { p \in Procs : op[p] \in {"emit", "emitSync"} /\ pc[p] = "done" }
EmitType(p) == emitted[p][Len(emitted[p])]
Registered(p) == Range(seen[p].subscribers[EmitType(p)]) \cup Range(seen[p].allSubs)
\* The number of times an emit invoked a subscription's handler.
Times(p, sub) == Cardinality({ i \in 1..Len(calls[p]) : calls[p][i] = sub })
\* The goroutines an emit started.
Goroutines(p) == { t \in tasks \cup handled : t.src = p }

\* C14: an Emit or EmitSync of an event of type T invokes exactly once the
\* handler of every subscription to T and of every catch-all subscription
\* registered when the emit began, and of no other subscription; Emit does so
\* in one goroutine per subscription.
EmitInvokesRegistered ==
    \A p \in EmitCalls :
        /\ \A sub \in Registered(p) : Times(p, sub) = 1
        /\ \A i \in 1..Len(calls[p]) : calls[p][i] \in Registered(p)
        /\ op[p] = "emit" => { t.id : t \in Goroutines(p) } = { sub.id : sub \in Registered(p) }

\* An EmitSync and an Emit have both returned, each has invoked a handler, and
\* a subscription to another type was registered and left alone.
EmitInvokesRegisteredWitness ==
    \E p, q \in EmitCalls :
        /\ op[p] = "emitSync" /\ op[q] = "emit"
        /\ calls[p] # <<>> /\ calls[q] # <<>>
        /\ \E t \in BusTypes \ {EmitType(p)} :
              seen[p].subscribers[t] # <<>> /\ Range(seen[p].subscribers[t]) \cap Range(calls[p]) = {}

\* C15: an emit that begins after the unsubscribe of a subscription has
\* returned does not invoke that subscription's handler, neither itself nor in
\* a goroutine.
NoDeliveryAfterUnsubscribe ==
    \A p \in Procs :
        /\ \A i \in 1..Len(calls[p]) : calls[p][i].id \notin seen[p].removed
        /\ \A t \in Goroutines(p) : t.id \notin seen[p].removed

\* An emit that began after an unsubscribe had returned has returned, having
\* invoked nothing.
NoDeliveryAfterUnsubscribeWitness ==
    \E p \in EmitCalls : seen[p].removed # {} /\ calls[p] = <<>> /\ Goroutines(p) = {}

\* The IDs of the subscriptions made by Subscribe and SubscribeAll calls,
\* those of SubscribeMultiple included.
Created == UNION { { e.id : e \in Range(unsubscribers[q]) } : q \in Procs }
NoClear == \A p \in Procs : op[p] # "clear"

\* C16: as long as only Subscribe, SubscribeAll and unsubscribe calls change
\* the subscriptions, SubscriberCount is the number of subscriptions made
\* minus the number of them that have been unsubscribed.
CountIsSubscribedMinusUnsubscribed ==
    NoClear => SubscriberCount = Cardinality(Created) - Cardinality(removed)

\* A SubscriberCount call has returned a positive count after an unsubscribe.
CountIsSubscribedMinusUnsubscribedWitness ==
    /\ NoClear
    /\ \E p \in Procs :
          op[p] = "subscriberCount" /\ pc[p] = "done" /\ counted[p] > 0 /\ removed # {}

\* The list of subscriptions of a type, or the list of catch-all subscriptions.
ListOf(t) == IF t = AllTypes THEN allSubs ELSE subscribers[t]
Keep(list, t, e, q) ==
    SelectSeq(list, LAMBDA sub : ~(t = e.type /\ sub.id = e.id /\ sub.by = q))

\* C17: every unsubscribe made by the func() of a subscribe call removes the
\* subscription that call made for it, when it is still registered, and
\* changes nothing else in any list.
UnsubscribeRemovesOwn ==
    [][\A p \in Procs :
          (op[p] = "unsubscribe" /\ pending'[p] # pending[p]) =>
              \A t \in EventTypes \cup {AllTypes} :
                  ListOf(t)' = Keep(ListOf(t), t, Head(pending[p]), closure[p])]_vars

\* The func() of one subscribe call has been invoked twice and has returned
\* twice.
UnsubscribeRemovesOwnWitness ==
    \E p, r \in Procs :
        /\ p # r /\ closure[p] = closure[r]
        /\ op[p] = "unsubscribe" /\ pc[p] = "done"
        /\ op[r] = "unsubscribe" /\ pc[r] = "done"

\* What EmitSync has to invoke, in order, and the IDs of a part of it.
Expected(p) == seen[p].subscribers[EmitType(p)] \o seen[p].allSubs
Increasing(list) == \A i, j \in 1..Len(list) : i < j => list[i].id < list[j].id

Writes == { p \in Procs : op[p] \in {"write", "writeEvent"} }
Closes == { p \in Procs : op[p] \in {"close", "multiClose"} /\ pc[p] = "done" }

\* C19: a Write or WriteEvent on an OutputStream that begins after a Close of
\* the stream has returned returns io.ErrClosedPipe, puts nothing on the
\* stream's channel and invokes no inline handler.
WriteAfterCloseFails ==
    \A p \in Writes :
        afterClose[p] =>
            /\ pc[p] = "done" /\ ret[p] = RawError(ErrClosedPipe)
            /\ put[p] = 0
            /\ invoked[p] = <<>>

\* A Write began on a stream with an inline handler after a Close of the
\* stream had returned.
WriteAfterCloseFailsWitness ==
    \E p \in Writes :
        afterClose[p] /\ op[p] = "write" /\ pc[p] = "done" /\ handlers[stream[p]] # <<>>

\* C20: every Close of an OutputStream or of the MultiStreamWriter returns
\* nil; no channel is closed twice; the channel of a stream is closed once a
\* Close of the stream has returned, and the channels of both streams and the
\* combined channel are closed once a Close of the writer has returned.
CloseIdempotent ==
    /\ \A p \in Closes : ret[p] = Nil
    /\ mcloses <= 1 /\ \A s \in Streams : closes[s] <= 1
    /\ \A s \in Streams : closeReturned[s] => closes[s] = 1
    /\ (\E p \in Closes : op[p] = "multiClose") =>
           mcloses = 1 /\ \A s \in Streams : closes[s] = 1

\* Two Close calls on the writer and one on a stream have all returned.
CloseIdempotentWitness ==
    \E p, q, r \in Closes :
        p # q /\ op[p] = "multiClose" /\ op[q] = "multiClose" /\ op[r] = "close"

\* C21: a write that has reached its send on a stream that is still open
\* always has a step to take, and that step ends the write (with nil unless a
\* handler returns an error), putting the event on the channel when there is
\* room and dropping it when there is none; a
\* forward goroutine that finds the combined channel full drops its event and
\* goes back to its loop.
WriteNeverBlocks ==
    /\ [](\A p \in Writes : pc[p] = "send" => ENABLED WriteEventSend(p))
    /\ [][\A p \in Writes :
             (pc[p] = "send" /\ pc'[p] # "send" /\ closes[stream[p]] = 0) =>
                 /\ pc'[p] = "done" /\ ret'[p] \in {Nil, RawError(ErrHandler)}
                 /\ pending[p] = <<>> => ret'[p] = Nil
                 /\ events'[stream[p]] =
                      IF Len(events[stream[p]]) < BufferSize
                      THEN Append(events[stream[p]], StreamEventOf(p, stream[p]))
                      ELSE events[stream[p]]]_vars
    /\ [][\A s \in Streams :
             (fwd[s].pc = "send" /\ fwd'[s].pc # "send" /\ Len(mevents) = 2 * BufferSize) =>
                 fwd'[s].pc = "range" /\ mevents' = mevents]_vars

\* A write has returned nil without having put its event on the channel of a
\* stream that is still open.
WriteNeverBlocksWitness ==
    \E p \in Writes :
        pc[p] = "done" /\ ret[p] = Nil /\ put[p] = 0 /\ ~closed[stream[p]]

\* The writes that have returned something other than io.ErrClosedPipe.
WritesThrough ==
    { p \in Writes : pc[p] = "done" /\ ret[p] # RawError(ErrClosedPipe) }
IsPrefix(a, b) == Len(a) <= Len(b) /\ a = SubSeq(b, 1, Len(a))

\* C22 as stated: every write that went through on an open stream has
\* invoked, in order, every handler that was registered when it began.
EveryHandlerInvoked ==
    \A p \in WritesThrough : IsPrefix(registered[p], invoked[p])

\* C22: a write that has returned nil or a handler's error has invoked
\* handlers of its stream in registration order, each once, whether or not
\* the channel was full; when it returned nil these include every handler
\* registered when it began, and when it returned a handler's error they end
\* with the handler that returned it.
HandlersInvokedInOrder ==
    \A p \in WritesThrough :
        /\ IsPrefix(invoked[p], handlers[stream[p]])
        /\ ret[p] = Nil => IsPrefix(registered[p], invoked[p])
        /\ ret[p] # Nil => ret[p] = RawError(ErrHandler) /\ invoked[p] # <<>>

\* A write on a stream with a handler found the channel full, dropped its
\* event, invoked the handler and returned nil.
HandlersInvokedInOrderWitness ==
    \E p \in WritesThrough :
        ret[p] = Nil /\ put[p] = 0 /\ registered[p] # <<>> /\ invoked[p] = registered[p]

\* The events of stream s on their way to the consumer, those nearest to it
\* first: on the combined channel, in the hands of the forward goroutine, on
\* the stream's own channel.
OfStream(s, evs) == SelectSeq(evs, LAMBDA e : e.type = s)
Pipeline(s) ==
    OfStream(s, mevents)
        \o (IF fwd[s].pc = "send" THEN <<fwd[s].event>> ELSE <<>>)
        \o events[s]
\* No event of the sequence is behind the event of a write that began after
\* its own write had returned.
InWriteOrder(evs) ==
    \A i, j \in 1..Len(evs) : i < j => evs[j].data \notin earlier[evs[i].data]

\* C23: the events of one stream are in the order of their writes on the
\* stream's own channel, on the combined channel, and from the one to the
\* other.
StreamOrderPreserved ==
    \A s \in Streams :
        /\ InWriteOrder(events[s])
        /\ InWriteOrder(OfStream(s, mevents))
        /\ InWriteOrder(Pipeline(s))

\* Two events of one stream are on the combined channel, the second written
\* after the write of the first had returned.
StreamOrderPreservedWitness ==
    \E s \in Streams :
        /\ Len(OfStream(s, mevents)) = 2
        /\ OfStream(s, mevents)[1].data \in earlier[OfStream(s, mevents)[2].data]

\* ------------------------------------------------------------- the Registry
\* The Get calls for the name n that returned while resets was g, that is
\* with no Unregister and no Close between any two of them.
GetsOf(n, g) ==
    { p \in Procs : op[p] = "get" /\ pc[p] = "done" /\ arg[p].name = n /\ at[p] = g }
\* The invocations of the constructor of n while resets was g.
InvocationsOf(n, g) == { i \in DOMAIN built : built[i].name = n /\ built[i].gen = g }
\* The providers the constructor of n has returned.
ProvidersOf(n) == { i \in DOMAIN built : built[i].name = n /\ built[i].ok }

\* C24 as stated: with no Unregister or Close in between, the constructor
\* of a name is invoked no more than once by any number of Get calls, and
\* every Get call for the name returns the same cached provider.
ConstructorInvokedOnce ==
    \A n \in ProviderNames, g \in 0..resets :
        /\ Cardinality(InvocationsOf(n, g)) <= 1
        /\ \A p, q \in GetsOf(n, g) : arg[p].registered /\ arg[q].registered =>
               got[p] = got[q] /\ got[p] # NoProvider

\* C24: with no Unregister or Close in between, the constructor of a name
\* returns a provider at most once, whatever the config values of the Get
\* calls, and every Get call for the name that returns without an error
\* returns the same provider, one the constructor of that name returned.
GetReturnsCached ==
    \A n \in ProviderNames, g \in 0..resets :
        /\ Cardinality(InvocationsOf(n, g) \cap ProvidersOf(n)) <= 1
        /\ \A p, q \in GetsOf(n, g) : ret[p] = Nil /\ ret[q] = Nil =>
               got[p] = got[q] /\ got[p] \in ProvidersOf(n)

GetReturnsCachedWitness ==
    \E p, q \in Procs, n \in ProviderNames :
        /\ p # q
        /\ p \in GetsOf(n, resets) /\ q \in GetsOf(n, resets)
        /\ arg[p].config # arg[q].config
        /\ ret[p] = Nil /\ ret[q] = Nil
        /\ got[p] = got[q] /\ got[p] # NoProvider

\* C25: a Get whose constructor returns an error reports an error to its
\* caller and leaves the cache as it was, with no provider under the name;
\* and a Get for a registered name with no provider cached invokes the
\* constructor of that name, so a Get after a failed one invokes it again.
FailedConstructionNotCached ==
    /\ [][Len(built') > Len(built) /\ ~built'[Len(built')].ok =>
              LET c == built'[Len(built')]
              IN  /\ ret'[c.by].kind = "error"
                  /\ got'[c.by] = NoProvider
                  /\ providers' = providers
                  /\ providers'[c.name] = NoProvider]_vars
    /\ [][\A p \in Procs : pc[p] = "idle" /\ op'[p] = "get" /\ pc'[p] = "done" =>
              LET n == arg'[p].name
              IN  n \in constructors /\ providers[n] = NoProvider =>
                      /\ Len(built') = Len(built) + 1
                      /\ built'[Len(built')].name = n
                      /\ built'[Len(built')].by = p]_vars

FailedConstructionNotCachedWitness ==
    \E i, j \in DOMAIN built :
        /\ i < j
        /\ built[i].name = built[j].name /\ built[i].gen = built[j].gen
        /\ ~built[i].ok
        /\ op[built[i].by] = "get" /\ ret[built[i].by] = RawError(ErrCreateProvider)
        /\ op[built[j].by] = "get" /\ pc[built[j].by] = "done"

\* The CreateSandbox calls whose name was not registered when they asked.
UnknownName(p) == op[p] = "createSandbox" /\ ~arg[p].registered

\* C26: a CreateSandbox call with a name that is not registered invokes no
\* constructor, gets no provider and creates no instance, and returns the
\* "provider not found" error, whose message lists the names registered
\* when it is built.
UnknownProviderListsAvailable ==
    /\ [](\A p \in Procs : UnknownName(p) =>
              /\ \A i \in DOMAIN built : built[i].by # p
              /\ \A x \in instances : x.by # p
              /\ got[p] = NoProvider
              /\ pc[p] = "done" => ret[p] = RawError(ErrProviderNotFound))
    /\ [][\A p \in Procs : UnknownName(p) /\ pc[p] # "done" /\ pc'[p] = "done" =>
              listed'[p] = constructors]_vars

UnknownProviderListsAvailableWitness ==
    \E p \in Procs :
        /\ UnknownName(p) /\ pc[p] = "done"
        /\ ret[p] = RawError(ErrProviderNotFound)
        /\ listed[p] # {} /\ arg[p].name \notin listed[p]
        /\ built # <<>>

\* ------------------------------------------------------------- the detector
\* C27: detection is pure: any two Detect calls with the same code and the
\* same options return equal results (language, confidence and method),
\* also when several languages tie on the heuristic match count.
DetectIsPure ==
    \A p, q \in Procs :
        op[p] = "detect" /\ pc[p] = "done" /\ op[q] = "detect" /\ pc[q] = "done" =>
            detected[p] = detected[q]

\* The steps in which the call p of DetectFromFilename returns.
DetectFromFilenameReturns(p) ==
    pc[p] = "idle" /\ op'[p] = "detectFromFilename" /\ pc'[p] = "done"

\* C28 as stated: for a filename whose extension resolves to a language,
\* DetectFromFilename returns that language with confidence 1.0.
ExtensionGivesFullConfidence ==
    [][\A p \in Procs : DetectFromFilenameReturns(p) /\ enry.byExtension.safe =>
           /\ detected'[p].Language = enry.byExtension.lang
           /\ detected'[p].Confidence = 100]_vars

\* C28: for a filename whose extension resolves to exactly one language,
\* DetectFromFilename returns that language with confidence 0.95 and method
\* "extension", unless the extension has a custom mapping, and then it
\* returns the mapped language with confidence 1.0 and method "custom", or
\* the whole filename is known, and then it returns the language of the
\* filename with confidence 1.0 and method "filename".
ExtensionGivesLanguage ==
    [][\A p \in Procs : DetectFromFilenameReturns(p) /\ enry.byExtension.safe =>
           detected'[p] =
               IF Ext(filename) \in DOMAIN customMappings
               THEN DetectResult(customMappings[Ext(filename)], 100, "custom")
               ELSE IF enry.byFilename.safe /\ enry.byFilename.lang # ""
               THEN DetectResult(enry.byFilename.lang, 100, "filename")
               ELSE DetectResult(enry.byExtension.lang, 95, "extension")]_vars

ExtensionGivesLanguageWitness ==
    \E p \in Procs :
        /\ op[p] = "detectFromFilename" /\ pc[p] = "done"
        /\ filename = MainPy /\ enry.byExtension.safe
        /\ customMappings # <<>> /\ Ext(filename) \notin DOMAIN customMappings
        /\ detected[p] = DetectResult(enry.byExtension.lang, 95, "extension")

\* -------------------------------------------------------------- the options
\* o.X when o.X is not the zero value of the field, d.X otherwise.
NonZeroOr(x, d, zero) == IF x # zero THEN x ELSE d

\* C29: merging options o onto defaults gives, for every field X of the
\* execution options, o.X when o.X is non-zero and defaults.X otherwise, and
\* merging nil gives the defaults.
MergeFillsEveryField ==
    \A p \in Procs : op[p] = "merge" /\ pc[p] = "done" =>
        IF options.nil THEN merged[p] = defaults
        ELSE /\ merged[p].Language = NonZeroOr(options.Language, defaults.Language, "")
             /\ merged[p].Filename = NonZeroOr(options.Filename, defaults.Filename, "")
             /\ merged[p].Timeout = NonZeroOr(options.Timeout, defaults.Timeout, 0)
             /\ merged[p].Env = NonZeroOr(options.Env, defaults.Env, NilMap)
             /\ merged[p].WorkDir = NonZeroOr(options.WorkDir, defaults.WorkDir, "")
             /\ merged[p].Stdin = NonZeroOr(options.Stdin, defaults.Stdin, "")
             /\ merged[p].Files = NonZeroOr(options.Files, defaults.Files, NilMap)
             /\ merged[p].KeepArtifacts =
                    NonZeroOr(options.KeepArtifacts, defaults.KeepArtifacts, FALSE)

\* ------------------------------------------------------------- the backends
\* The Execute calls whose compile command ran and exited non-zero.
CompileFailed(p) ==
    /\ op[p] = "backendExecute" /\ steps[p] # <<>>
    /\ steps[p][1].cmd = "compile" /\ steps[p][1].ran /\ steps[p][1].exit # 0

\* C30: when the compile step of an Execute call exits non-zero, the call
\* returns a result and no error, the result carries a non-zero exit code
\* and the compiler's output as stderr, and the run step is not executed.
CompileFailureIsResult ==
    \A p \in Procs : CompileFailed(p) =>
        /\ pc[p] = "done" /\ Len(steps[p]) = 1
        /\ ret[p] = Nil
        /\ ~result[p].nil /\ result[p].ExitCode # 0 /\ result[p].Stderr = CompilerOutput

WriteNeverPanics == \A p \in Procs : pc[p] # "panic"

\* C40: in every interleaving of writes and Close on a MultiStreamWriter, no
\* event is put on the combined channel once it has been closed, and after
\* Close has closed it both forward goroutines come to the end of their loop.
ForwardersStopAfterClose ==
    /\ [][mcloses > 0 => mevents' = mevents]_vars
    /\ (mcloses > 0) ~> (\A s \in Streams : fwd[s].pc = "exit")

ForwardersStopAfterCloseWitness ==
    /\ mcloses > 0
    /\ \A s \in Streams : fwd[s].pc = "exit"
    /\ \E p \in Procs :
           put[p] = 1 /\ StreamEventOf(p, stream[p]) \notin Range(mevents)
                      /\ StreamEventOf(p, stream[p]) \notin Range(events[stream[p]])

\* The IDs of the subscriptions whose unsubscribe closure has returned.
Unsubscribed ==
    UNION { { e.id : e \in Range(unsubscribers[closure[p]]) } :
              p \in { q \in Procs : op[q] = "unsubscribe" /\ pc[q] = "done" } }
\* The handler invocations of a step: those of the goroutines of Emit and
\* those of the loops of EmitSync.
RunsGoroutine(t) == t \in tasks /\ t \in handled' /\ t \notin handled
RunsInline(p) == op[p] = "emitSync" /\ Len(calls'[p]) = Len(calls[p]) + 1

\* C39 as stated: once an unsubscribe closure has returned, no step invokes
\* the handler of its subscription, the goroutines of an Emit that began
\* before the unsubscribe included.
NeverInvokedAfterUnsubscribe ==
    [][/\ \A t \in tasks : RunsGoroutine(t) => t.id \notin Unsubscribed
       /\ \A p \in Procs : RunsInline(p) => Head(pending[p]).id \notin Unsubscribed]_vars

\* C39: once an unsubscribe closure has returned, the handler of its
\* subscription is invoked by no EmitSync and by no goroutine of an Emit that
\* began after the unsubscribe; the only invocations left are those of the
\* goroutines that an Emit started before the unsubscribe removed the
\* subscription.
OnlyEarlierGoroutinesAfterUnsubscribe ==
    [][/\ \A t \in tasks : RunsGoroutine(t) /\ t.id \in Unsubscribed =>
              op[t.src] = "emit" /\ t.id \notin seen[t.src].removed
       /\ \A p \in Procs : RunsInline(p) => Head(pending[p]).id \notin Unsubscribed]_vars

\* The handler of a subscription whose unsubscribe closure has returned has
\* been invoked by a goroutine of an Emit that began before the unsubscribe,
\* and no goroutine is left to run.
OnlyEarlierGoroutinesAfterUnsubscribeWitness ==
    \E t \in handled : /\ t.id \in Unsubscribed
                        /\ op[t.src] = "emit" /\ t.id \notin seen[t.src].removed
                        /\ tasks = {}

\* C33: a handler that calls Clear on the Bus while EmitSync is running it
\* completes (EmitSync has then invoked it), and the EmitSync returns.
HandlerCallCompletes ==
    \A p \in Procs :
        /\ InHandlerClear(p) ~> (~InHandlerClear(p) /\ calls[p] # <<>>)
        /\ InHandlerClear(p) ~> (pc[p] = "done")

\* A Stop call has returned after its backend Stop failed.
StopFailed == \E q \in Procs : op[q] = "stop" /\ pc[q] = "done" /\ bres[q] = "err"

\* C37: a Stop call whose backend Stop failed returns the wrapped error; a Stop
\* call that starts after it has returned returns nil without a backend call,
\* and a Status call that starts after it has returned returns stopped without
\* consulting the backend.
FailedStopIsTerminal ==
    /\ [](\A p \in Procs : op[p] = "stop" /\ pc[p] = "done" /\ bres[p] = "err" =>
                              ret[p] = NewError("stop", ErrBackend))
    /\ [][\A p \in Procs :
             (StopFailed /\ pc[p] = "idle" /\ op'[p] \in {"stop", "status"}) =>
                 /\ pc'[p] = "done"
                 /\ ret'[p] = IF op'[p] = "stop" THEN Nil ELSE Value(StatusStopped)
                 /\ bcalls'[p] = <<>>]_vars

\* The backend Stop failed and left the instance running, its Stop call
\* returned the wrapped error, and a Stop and a Status that read the flag as
\* set have returned nil and stopped.
FailedStopIsTerminalWitness ==
    /\ StopFailed /\ instStatus = StatusRunning
    /\ \E p \in Procs : op[p] = "stop" /\ pc[p] = "done" /\ observed[p] /\ ret[p] = Nil
    /\ \E p \in Procs : op[p] = "status" /\ pc[p] = "done" /\ observed[p]
                        /\ ret[p] = Value(StatusStopped)

\* The backend Stop has been invoked.
BackendStopInvoked ==
    \E q \in Procs : \E i \in 1..Len(bcalls[q]) : bcalls[q][i].method = "Stop"
\* The backend methods that run code or a command.
RunMethods == {"Execute", "ExecuteStream", "RunCommand"}
\* This step of process p begins a backend call of one of these methods.
BeginsBackendCall(p, methods) ==
    /\ Len(bcalls'[p]) = Len(bcalls[p]) + 1
    /\ bcalls'[p][Len(bcalls'[p])].method \in methods

\* C34 as stated: once the backend Stop has been invoked, no backend Execute,
\* ExecuteStream or RunCommand call begins.
NoBackendRunAfterBackendStop ==
    [][\A p \in Procs : BackendStopInvoked => ~BeginsBackendCall(p, RunMethods)]_vars

\* C34: an Execute, ExecuteStream or RunCommand call that reads the stopped
\* flag once Stop has set it begins no backend call; a backend Execute,
\* ExecuteStream or RunCommand call that begins after the backend Stop has been
\* invoked is that of a call that read the flag before Stop set it.
NoBackendRunOnceFlagRead ==
    [][\A p \in Procs :
          /\ (stopped /\ pc[p] = "idle" /\ op'[p] \in {"execute", "executeStream", "runCommand"}) =>
                 pc'[p] = "done" /\ bcalls'[p] = <<>>
          /\ (BackendStopInvoked /\ BeginsBackendCall(p, RunMethods)) =>
                 pc[p] # "idle" /\ ~observed[p] /\ bcalls'[p][Len(bcalls'[p])].flag]_vars

\* The backend Stop has been invoked, and a call that read the flag before
\* Stop set it has begun its backend call with the flag set.
NoBackendRunOnceFlagReadWitness ==
    /\ BackendStopInvoked
    /\ \E p \in Procs : \E i \in 1..Len(bcalls[p]) :
          bcalls[p][i].method \in RunMethods /\ bcalls[p][i].flag /\ ~observed[p]

\* C36: a Provider.Close that finds a live instance in its range, called on
\* the provider or by Registry.Close or Registry.Unregister, stops every
\* instance and returns.
ProviderCloseTerminates ==
    \A p \in Procs :
        (op[p] \in CloseOps /\ pc[p] = "ranging" /\ \E i \in remaining[p] : ~istopped[i])
            ~> (pc[p] = "done" /\ \A i \in Built : istopped[i])

\* C31: no two sandboxes have the same ID, whether they are instances of the
\* nsjail provider or mock instances.
SandboxIDsUnique ==
    /\ \A p, q \in Built : p # q => ids[p] # ids[q]
    /\ Cardinality(mockIDs) = instanceCounter

\* C32: whatever is registered in a RuntimeRegistry and written to the
\* descriptors obtained from it, the lookup in the global catalog returns the
\* same descriptors with the same contents as at the start.
GlobalDefaultsUnchanged ==
    \A language \in Languages :
        Deref(heap, GetRuntimeInfoGlobal(language)) =
            Deref(InitialHeap, GetRuntimeInfoGlobal(language))

============================================================================
